---- MODULE Spec2Model ----
(***************************************************************************)
(* Model of the rule-set engine of the dns-masquerading-operator           *)
(* (internal/coredns/rewrite.go with the name checks of                    *)
(* internal/netutil/utils.go): the in-memory RewriteRuleSet, its AddRule   *)
(* and RemoveRule operations and the text codec (String and                *)
(* ParseRewriteRuleSet) of the shared coredns artifact, and of the         *)
(* MasqueradingRule controller and admission webhook that use it           *)
(* (internal/controllers/masqueradingrule_controller.go,                   *)
(* internal/webhooks/masqueradingrule_webhook.go).                         *)
(*                                                                         *)
(* Representation of Go values:                                            *)
(*   - a string that is used as a DNS name, an IP literal or a word of a   *)
(*     line is the sequence of its pieces between the '.' characters:      *)
(*     "a.foo.io" is <<"a","foo","io">>, "#" is <<"#">>;                   *)
(*   - an owner string is the sequence of its blank-separated words:       *)
(*     "uid1 (ns/a)" is <<"uid1","(ns/a)">>;                               *)
(*   - a line of the artifact is [ind |-> number of leading blanks,        *)
(*     toks |-> the sequence of its words], a text is a sequence of lines  *)
(*     (strings.Split(s, "\n") / strings.Join(lines, "\n"));               *)
(*   - a Go map is a function; a *RewriteRule is represented by the Owner  *)
(*     under which the object was allocated, the objects themselves are    *)
(*     the values of rulesByOwner.                                         *)
(***************************************************************************)
EXTENDS Integers, Sequences, FiniteSets, TLC

VARIABLES
    rulesByFrom,    \* RewriteRuleSet.rulesByFrom: From -> pointer (allocation owner)
    rulesByOwner,   \* RewriteRuleSet.rulesByOwner: Owner -> rule object
    text,           \* the artifact text, a sequence of lines
    op,             \* the last operation and its argument
    res,            \* what the last operation returned
    entities,       \* the MasqueradingRule objects in the API server
    configMap,      \* the coredns custom ConfigMap in the API server
    clock,          \* time.Now()
    pass,           \* per MasqueradingRule: the Reconcile call in flight
    last,           \* what the last admission or Reconcile call did
    check,          \* the CheckRecord call of the resolver: its inputs and locals
    tasks,          \* the goroutines of that call, one per endpoint
    results,        \* results[i]: the channel (capacity 1) of goroutine i
    obj,            \* the Service, Ingress or Gateway that owns masquerading rules
    dependents,     \* the MasqueradingRule objects with the label of that owner
    nextUid,        \* the UID that the API server gives the next object
    managed         \* what the last manageDependents call did

rsVars == <<rulesByFrom, rulesByOwner, text, op, res>>

ctlVars == <<entities, configMap, clock, pass, last>>

resolverVars == <<check, tasks, results>>

depVars == <<obj, dependents, nextUid, managed>>

vars == <<rulesByFrom, rulesByOwner, text, op, res, entities, configMap, clock, pass, last,
          check, tasks, results, obj, dependents, nextUid, managed>>

-----------------------------------------------------------------------------
(* Bounds of the model *)

\* number of distinct owners that call the rule set
MaxOwners == 3
\* number of successful AddRule calls that build the sets the codec is run on
MaxAdds == 3
\* number of edits made from outside to an artifact that String wrote
MaxEdits == 1
\* number of MasqueradingRule objects
MaxEntities == 2
\* last instant of the clock
MaxTime == 2
\* the number of versions of .spec an object goes through (metadata.generation)
MaxGeneration == 2

-----------------------------------------------------------------------------
(* Input universes *)

\* owner identifiers "<uid> (<namespace>/<name>)", in ascending byte order
AllOwners ==
    << <<"uid1", "(ns/a)">>, <<"uid2", "(ns/b)">>, <<"uid3", "(ns/c)">>,
       <<"uid4", "(ns/d)">>, <<"uid5", "(ns/e)">>, <<"uid6", "(ns/f)">> >>

Min(a, b) == IF a < b THEN a ELSE b

Owners == {AllOwners[i] : i \in 1..Min(MaxOwners, Len(AllOwners))}

OwnerRank(o) == CHOOSE i \in 1..Len(AllOwners) : AllOwners[i] = o

\* byte-wise string order on owners
OwnerLess(a, b) == OwnerRank(a) < OwnerRank(b)

NameA == <<"a", "foo", "io">>
NameB == <<"b", "io">>
WildFoo == <<"*", "foo", "io">>
BadName == <<"-x", "io">>
Ip4 == <<"1", "2", "3", "4">>
NameT == <<"t", "io">>
WildT == <<"*", "t", "io">>
NoName == <<"">>

FromNames == {NameA, NameB, WildFoo, BadName}
ToNames == {Ip4, NameT, WildT}

RuleArgs == [Owner : Owners, From : FromNames, To : ToNames]

-----------------------------------------------------------------------------
(* internal/netutil/utils.go *)

\* labels of the universe matched by [a-zA-Z0-9]|[a-zA-Z0-9][a-zA-Z0-9\-]{0,61}[a-zA-Z0-9]
LdhLabels == {"a", "b", "t", "foo", "io", "wildcard", "1", "2", "3", "4"}

\* pieces of the universe that net.ParseIP accepts as a decimal octet
Octets == {"1", "2", "3", "4"}

MaxDnsNameLen == 255

RECURSIVE StrLen(_)
\* len(s) of the string with pieces s
StrLen(s) ==
    IF s = <<>> THEN 0
    ELSE IF Len(s) = 1 THEN Len(s[1])
    ELSE Len(s[1]) + 1 + StrLen(Tail(s))

\* the regular expression ^\*\.(.+)$
HasWildcardPrefix(s) ==
    /\ Len(s) >= 2
    /\ s[1] = "*"
    /\ StrLen(Tail(s)) >= 1

\* CheckDnsName: TRUE when it returns a nil error
CheckDnsName(s, allowWildcard) ==
    LET s1 == IF allowWildcard /\ HasWildcardPrefix(s)
              THEN <<"wildcard">> \o Tail(s)
              ELSE s
    IN  /\ ~(StrLen(s1) > MaxDnsNameLen)
        /\ Len(s1) >= 1
        /\ \A i \in 1..Len(s1) : s1[i] \in LdhLabels

\* pieces of the universe whose first byte is '*'
StarPieces == {"*"}

IsWildcardDnsName(s) == StrLen(s) > 0 /\ s[1] \in StarPieces

\* net.ParseIP(s) != nil, on the universe: a dotted quad of decimal octets
IsIpAddress(s) == Len(s) = 4 /\ \A i \in 1..4 : s[i] \in Octets

-----------------------------------------------------------------------------
(* internal/coredns/rewrite.go: the rule set *)

EmptyMap == [x \in {} |-> x]

MapPut(m, k, v) == [x \in (DOMAIN m) \cup {k} |-> IF x = k THEN v ELSE m[x]]

MapDelete(m, k) == [x \in (DOMAIN m) \ {k} |-> m[x]]

NewRewriteRuleSet == [rulesByFrom |-> EmptyMap, rulesByOwner |-> EmptyMap]

NoRule == [Owner |-> <<>>, From |-> NoName, To |-> NoName]

\* GetRule: a copy of the owner's rule, NoRule for nil
GetRule(rs, owner) ==
    IF owner \in DOMAIN rs.rulesByOwner THEN rs.rulesByOwner[owner] ELSE NoRule

\* a wildcard source is accepted with an IP address as target
AddRuleCheckWildcardIp(r) ==
    IF ~CheckDnsName(r.From, TRUE) THEN "invalid source"
    ELSE IF IsIpAddress(r.To) THEN "none"
    ELSE (IF ~CheckDnsName(r.To, FALSE) THEN "invalid target" ELSE "none")

\* the validation at the head of AddRule: the error it returns, "none" for none
AddRuleCheck(r) ==
    IF ~CheckDnsName(r.From, TRUE) THEN "invalid source"
    ELSE IF IsIpAddress(r.To)
         THEN (IF IsWildcardDnsName(r.From) THEN "wildcard with ip" ELSE "none")
         ELSE (IF ~CheckDnsName(r.To, FALSE) THEN "invalid target" ELSE "none")

\* mutant: the owner's previous entry is dropped before the conflict is detected
AddRuleStoreEagerDelete(rs, r) ==
    IF r.From \in DOMAIN rs.rulesByFrom
    THEN LET p == rs.rulesByFrom[r.From] IN
         IF rs.rulesByOwner[p].Owner = r.Owner
         THEN [err |-> "none",
               rs |-> [rs EXCEPT !.rulesByOwner[p].To = r.To]]
         ELSE [err |-> "conflict",
               rs |-> IF r.Owner \in DOMAIN rs.rulesByOwner
                      THEN [rulesByFrom |-> MapDelete(rs.rulesByFrom, rs.rulesByOwner[r.Owner].From),
                            rulesByOwner |-> MapDelete(rs.rulesByOwner, r.Owner)]
                      ELSE rs]
    ELSE IF r.Owner \in DOMAIN rs.rulesByOwner
         THEN LET s == rs.rulesByOwner[r.Owner] IN
              [err |-> "none",
               rs |-> [rulesByFrom |-> MapPut(MapDelete(rs.rulesByFrom, s.From), r.From, r.Owner),
                       rulesByOwner |-> [rs.rulesByOwner EXCEPT ![r.Owner].From = r.From,
                                                                ![r.Owner].To = r.To]]]
         ELSE [err |-> "none",
               rs |-> [rulesByFrom |-> MapPut(rs.rulesByFrom, r.From, r.Owner),
                       rulesByOwner |-> MapPut(rs.rulesByOwner, r.Owner, r)]]

\* mutant: the owner's old From stays in rulesByFrom when the From changes
AddRuleStoreKeepOldFrom(rs, r) ==
    IF r.From \in DOMAIN rs.rulesByFrom
    THEN LET p == rs.rulesByFrom[r.From] IN
         IF rs.rulesByOwner[p].Owner = r.Owner
         THEN [err |-> "none",
               rs |-> [rs EXCEPT !.rulesByOwner[p].To = r.To]]
         ELSE [err |-> "conflict", rs |-> rs]
    ELSE IF r.Owner \in DOMAIN rs.rulesByOwner
         THEN [err |-> "none",
               rs |-> [rulesByFrom |-> MapPut(rs.rulesByFrom, r.From, r.Owner),
                       rulesByOwner |-> [rs.rulesByOwner EXCEPT ![r.Owner].From = r.From,
                                                                ![r.Owner].To = r.To]]]
         ELSE [err |-> "none",
               rs |-> [rulesByFrom |-> MapPut(rs.rulesByFrom, r.From, r.Owner),
                       rulesByOwner |-> MapPut(rs.rulesByOwner, r.Owner, r)]]

\* AddRuleStore refusing an owner that already holds a rule for another From
AddRuleStoreOwnConflict(rs, r) ==
    IF r.From \in DOMAIN rs.rulesByFrom
    THEN LET p == rs.rulesByFrom[r.From] IN
         IF rs.rulesByOwner[p].Owner = r.Owner
         THEN [err |-> "none",
               rs |-> [rs EXCEPT !.rulesByOwner[p].To = r.To]]
         ELSE [err |-> "conflict", rs |-> rs]
    ELSE IF r.Owner \in DOMAIN rs.rulesByOwner
         THEN [err |-> "conflict", rs |-> rs]
         ELSE [err |-> "none",
               rs |-> [rulesByFrom |-> MapPut(rs.rulesByFrom, r.From, r.Owner),
                       rulesByOwner |-> MapPut(rs.rulesByOwner, r.Owner, r)]]

\* AddRule entering the new From as a key while the owner's entry keeps the old one
AddRuleStoreKeepOld(rs, r) ==
    IF r.From \in DOMAIN rs.rulesByFrom
    THEN LET p == rs.rulesByFrom[r.From] IN
         IF rs.rulesByOwner[p].Owner = r.Owner
         THEN [err |-> "none",
               rs |-> [rs EXCEPT !.rulesByOwner[p].To = r.To]]
         ELSE [err |-> "conflict", rs |-> rs]
    ELSE IF r.Owner \in DOMAIN rs.rulesByOwner
         THEN [err |-> "none",
               rs |-> [rulesByFrom |-> MapPut(rs.rulesByFrom, r.From, r.Owner),
                       rulesByOwner |-> [rs.rulesByOwner EXCEPT ![r.Owner].To = r.To]]]
         ELSE [err |-> "none",
               rs |-> [rulesByFrom |-> MapPut(rs.rulesByFrom, r.From, r.Owner),
                       rulesByOwner |-> MapPut(rs.rulesByOwner, r.Owner, r)]]

\* the lookup and store part of AddRule, for a rule that passed the validation
AddRuleStore(rs, r) ==
    IF r.From \in DOMAIN rs.rulesByFrom
    THEN \* a rule with r.From exists
         LET p == rs.rulesByFrom[r.From] IN
         IF rs.rulesByOwner[p].Owner = r.Owner
         THEN \* s.To = r.To, through the pointer
              [err |-> "none",
               rs |-> [rs EXCEPT !.rulesByOwner[p].To = r.To]]
         ELSE [err |-> "conflict", rs |-> rs]
    ELSE IF r.Owner \in DOMAIN rs.rulesByOwner
         THEN \* a rule with r.Owner exists: its object is moved to the new From
              LET s == rs.rulesByOwner[r.Owner] IN
              [err |-> "none",
               rs |-> [rulesByFrom |-> MapPut(MapDelete(rs.rulesByFrom, s.From), r.From, r.Owner),
                       rulesByOwner |-> [rs.rulesByOwner EXCEPT ![r.Owner].From = r.From,
                                                                ![r.Owner].To = r.To]]]
         ELSE \* a new object &r is entered in both maps
              [err |-> "none",
               rs |-> [rulesByFrom |-> MapPut(rs.rulesByFrom, r.From, r.Owner),
                       rulesByOwner |-> MapPut(rs.rulesByOwner, r.Owner, r)]]

\* AddRule: [err |-> the error returned ("none" for nil), rs |-> the rule set afterwards]
AddRule(rs, r) ==
    IF AddRuleCheck(r) # "none"
    THEN [err |-> AddRuleCheck(r), rs |-> rs]
    ELSE AddRuleStore(rs, r)

\* RemoveRule dropping every rule of the set with the owner's rule
RemoveRuleClear(rs, owner) ==
    IF owner \in DOMAIN rs.rulesByOwner
    THEN [err |-> "none", rs |-> NewRewriteRuleSet]
    ELSE [err |-> "no rule found", rs |-> rs]

\* RemoveRule: [err |-> the error returned ("none" for nil), rs |-> the rule set afterwards]
RemoveRule(rs, owner) ==
    IF owner \in DOMAIN rs.rulesByOwner
    THEN [err |-> "none",
          rs |-> [rulesByFrom |-> MapDelete(rs.rulesByFrom, rs.rulesByOwner[owner].From),
                  rulesByOwner |-> MapDelete(rs.rulesByOwner, owner)]]
    ELSE [err |-> "no rule found", rs |-> rs]

\* the matching relation of a rule and a host name (a wildcard rule matches
\* every host that ends with ".suffix", any other rule only its own From)
Matches(rule, host) ==
    IF rule.From[1] = "*"
    THEN LET suffix == Tail(rule.From) IN
         /\ Len(host) > Len(suffix)
         /\ SubSeq(host, Len(host) - Len(suffix) + 1, Len(host)) = suffix
    ELSE host = rule.From

-----------------------------------------------------------------------------
(* internal/coredns/rewrite.go: the lines String writes *)

Word(w) == <<w>>

Line(ind, toks) == [ind |-> ind, toks |-> toks]

\* the words of an owner string, each as the pieces of a word without '.'
OwnerToks(owner) == [i \in 1..Len(owner) |-> Word(owner[i])]

\* "hosts {"
HostsOpen == Line(0, <<Word("hosts"), Word("{")>>)
\* "  fallthrough"
Fallthrough == Line(2, <<Word("fallthrough")>>)
\* "}"
HostsClose == Line(0, <<Word("}")>>)

\* fmt.Sprintf("# owner: %s", owner) behind ind blanks
OwnerLine(ind, owner) == Line(ind, <<Word("#"), Word("owner:")>> \o OwnerToks(owner))
\* fmt.Sprintf("# from: %s", from) behind ind blanks
FromLine(ind, from) == Line(ind, <<Word("#"), Word("from:"), from>>)
\* fmt.Sprintf("# to: %s", to) behind ind blanks
ToLine(ind, to) == Line(ind, <<Word("#"), Word("to:"), to>>)

\* strings.ReplaceAll(s, `.`, `\.`): every piece but the last ends with a backslash
EscapeDots(s) == [i \in 1..Len(s) |-> IF i < Len(s) THEN s[i] \o "\\" ELSE s[i]]

RECURSIVE ReplaceStars(_)
\* strings.ReplaceAll(s, `*`, `.*`): a piece that starts with '*' gets a '.' in front
ReplaceStars(s) ==
    IF s = <<>> THEN <<>>
    ELSE (IF Head(s) \in {"*", "*\\"} THEN <<"", Head(s)>> ELSE <<Head(s)>>)
         \o ReplaceStars(Tail(s))

\* fmt.Sprintf("  %s %s", r.To, r.From)
HostsRuleLine(r) == Line(2, <<r.To, r.From>>)

\* the "rewrite name ..." line of a rule with a name target
RewriteLine(r) ==
    IF IsWildcardDnsName(r.From)
    THEN Line(0, <<Word("rewrite"), Word("name"), Word("regex"),
                   ReplaceStars(EscapeDots(r.From)), r.To>>)
    ELSE Line(0, <<Word("rewrite"), Word("name"), Word("exact"), r.From, r.To>>)

\* the lines that end the hosts block
HostsTrailerBraceOnly == <<HostsClose>>

HostsTrailer == <<Fallthrough, HostsClose>>

RECURSIVE Insert(_, _)
Insert(x, sorted) ==
    IF sorted = <<>> THEN <<x>>
    ELSE IF OwnerLess(x, Head(sorted)) THEN <<x>> \o sorted
    ELSE <<Head(sorted)>> \o Insert(x, Tail(sorted))

RECURSIVE SortAscending(_)
SortAscending(keys) ==
    IF keys = <<>> THEN <<>> ELSE Insert(Head(keys), SortAscending(Tail(keys)))

\* mutant: the keys are used in the order the map yields them
SliceUnsorted(keys) == keys

\* slices.Sort(keys): the keys in ascending order
SlicesSort(keys) == SortAscending(keys)

RECURSIVE HostsLoop(_, _, _, _)
\* the first loop of String over the sorted owners ks: [lines, haveHosts]
HostsLoop(rs, ks, lines, haveHosts) ==
    IF ks = <<>> THEN [lines |-> lines, haveHosts |-> haveHosts]
    ELSE LET r == rs.rulesByOwner[Head(ks)] IN
         IF ~IsIpAddress(r.To)
         THEN HostsLoop(rs, Tail(ks), lines, haveHosts)
         ELSE HostsLoop(rs, Tail(ks),
                        lines \o (IF ~haveHosts THEN <<HostsOpen>> ELSE <<>>)
                              \o <<OwnerLine(2, r.Owner), FromLine(2, r.From),
                                   ToLine(2, r.To), HostsRuleLine(r)>>,
                        TRUE)

RECURSIVE RewriteLoop(_, _, _)
\* the second loop of String over the sorted owners ks
RewriteLoop(rs, ks, lines) ==
    IF ks = <<>> THEN lines
    ELSE LET r == rs.rulesByOwner[Head(ks)] IN
         IF IsIpAddress(r.To)
         THEN RewriteLoop(rs, Tail(ks), lines)
         ELSE RewriteLoop(rs, Tail(ks),
                          lines \o <<OwnerLine(0, r.Owner), FromLine(0, r.From),
                                     ToLine(0, r.To), RewriteLine(r)>>)

\* String: keys1 and keys2 are what the two maps.Keys(rs.rulesByOwner) calls
\* yield (Go leaves the order of a map's keys open)
String(rs, keys1, keys2) ==
    LET first == HostsLoop(rs, SlicesSort(keys1), <<>>, FALSE)
        closed == IF first.haveHosts THEN first.lines \o HostsTrailer ELSE first.lines
    IN  RewriteLoop(rs, SlicesSort(keys2), closed)

-----------------------------------------------------------------------------
(* internal/coredns/rewrite.go: ParseRewriteRuleSet *)

RECURSIVE JoinDots(_)
\* the string with pieces s, as one word
JoinDots(s) ==
    IF Len(s) = 1 THEN s[1] ELSE s[1] \o "." \o JoinDots(Tail(s))

RECURSIVE JoinBlanks(_)
\* the pieces of the string made of the words toks with one blank between them
JoinBlanks(toks) ==
    IF Len(toks) = 1 THEN toks[1]
    ELSE LET a == toks[1]
             b == JoinBlanks(Tail(toks))
         IN  SubSeq(a, 1, Len(a) - 1) \o <<a[Len(a)] \o " " \o b[1]>> \o Tail(b)

\* (.+) has something to capture behind the first two words
HasCapture(l) == Len(l.toks) >= 3 /\ (Len(l.toks) > 3 \/ StrLen(l.toks[3]) >= 1)

\* ^\s*# owner: (.+)$
IsOwnerLine(l) ==
    Len(l.toks) >= 2 /\ l.toks[1] = Word("#") /\ l.toks[2] = Word("owner:") /\ HasCapture(l)
\* ^\s*# from: (.+)$
IsFromLine(l) ==
    Len(l.toks) >= 2 /\ l.toks[1] = Word("#") /\ l.toks[2] = Word("from:") /\ HasCapture(l)
\* ^\s*# to: (.+)$
IsToLine(l) ==
    Len(l.toks) >= 2 /\ l.toks[1] = Word("#") /\ l.toks[2] = Word("to:") /\ HasCapture(l)

\* m[1] of the owner expression: the owner string, as its words
CapturedOwner(l) == [i \in 1..(Len(l.toks) - 2) |-> JoinDots(l.toks[i + 2])]

\* m[1] of the from and to expressions
CapturedName(l) == JoinBlanks(SubSeq(l.toks, 3, Len(l.toks)))

\* ^\s*\S+\s+\S+$
IsHostsRuleLine(l) ==
    Len(l.toks) = 2 /\ StrLen(l.toks[1]) >= 1 /\ StrLen(l.toks[2]) >= 1

\* ^\s*rewrite name (exact|regex) (\S+) (\S+)$
IsRewriteLine(l) ==
    /\ Len(l.toks) = 5
    /\ l.toks[1] = Word("rewrite")
    /\ l.toks[2] = Word("name")
    /\ l.toks[3] \in {Word("exact"), Word("regex")}
    /\ StrLen(l.toks[4]) >= 1
    /\ StrLen(l.toks[5]) >= 1

\* mutant: the error names the 0-based index of the line
ParseErrorAtIndex(i) == [err |-> "parse", line |-> i - 1]

\* fmt.Errorf("error parsing rewrite rules (at line %d)", i+1), i the 1-based
\* position of the line (the source counts from 0 and prints i+1)
ParseErrorAt(i) == [err |-> "parse", line |-> i]

\* fmt.Errorf("error parsing rewrite rules (premature end of file)")
PrematureEnd == [err |-> "premature", line |-> 0]

RECURSIVE ParseLoop(_, _, _, _)
\* the loop of ParseRewriteRuleSet from position i (1-based) on:
\* [err, line, rs], rs the set built when err is "none"
ParseLoop(lines, i, have_hosts, rs) ==
    IF i > Len(lines) THEN [err |-> "none", line |-> 0, rs |-> rs]
    ELSE IF lines[i] = HostsOpen /\ ~have_hosts
         THEN ParseLoop(lines, i + 1, TRUE, rs)
    ELSE IF lines[i] = Fallthrough /\ i + 1 <= Len(lines) /\ lines[i + 1] = HostsClose
         THEN ParseLoop(lines, i + 2, FALSE, rs)
    ELSE IF ~IsOwnerLine(lines[i]) THEN ParseErrorAt(i) @@ [rs |-> rs]
    ELSE IF i + 1 > Len(lines) THEN PrematureEnd @@ [rs |-> rs]
    ELSE IF ~IsFromLine(lines[i + 1]) THEN ParseErrorAt(i + 1) @@ [rs |-> rs]
    ELSE IF i + 2 > Len(lines) THEN PrematureEnd @@ [rs |-> rs]
    ELSE IF ~IsToLine(lines[i + 2]) THEN ParseErrorAt(i + 2) @@ [rs |-> rs]
    ELSE IF i + 3 > Len(lines) THEN PrematureEnd @@ [rs |-> rs]
    ELSE IF have_hosts /\ ~IsHostsRuleLine(lines[i + 3]) THEN ParseErrorAt(i + 3) @@ [rs |-> rs]
    ELSE IF ~have_hosts /\ ~IsRewriteLine(lines[i + 3]) THEN ParseErrorAt(i + 3) @@ [rs |-> rs]
    ELSE LET out == AddRule(rs, [Owner |-> CapturedOwner(lines[i]),
                                 From |-> CapturedName(lines[i + 1]),
                                 To |-> CapturedName(lines[i + 2])])
         IN  IF out.err # "none"
             THEN [err |-> out.err, line |-> 0, rs |-> rs]
             ELSE ParseLoop(lines, i + 4, have_hosts, out.rs)

\* ParseRewriteRuleSet: [err, line, rs]; rs is the returned set when err is
\* "none" (the source returns nil otherwise). The empty text is <<>>.
ParseRewriteRuleSet(lines) ==
    IF lines = <<>> THEN [err |-> "none", line |-> 0, rs |-> NewRewriteRuleSet]
    ELSE ParseLoop(lines, 1, FALSE, NewRewriteRuleSet)

-----------------------------------------------------------------------------
(* State of the API server as the controller sees it *)

\* the MasqueradingRule objects, by index; the i-th has the owner string AllOwners[i]
Entities == 1..Min(MaxEntities, Len(AllOwners))

\* owner := fmt.Sprintf("%s (%s/%s)", UID, Namespace, Name)
OwnerOf(e) == AllOwners[e]

\* a MasqueradingRule that was never created, or was removed from the store
NoEntity(phase) ==
    [phase |-> phase, from |-> NoName, to |-> NoName, state |-> "", msg |-> "",
     own |-> FALSE, foreign |-> FALSE, deleting |-> FALSE,
     generation |-> 0, observedGeneration |-> 0]

\* no annotation dns.cs.sap.com/last-updated-at
NoStamp == -1
\* an annotation value that time.Parse(time.RFC3339Nano, val) rejects
BadStamp == -2

\* Get of the ConfigMap returned NotFound
NoConfigMap == [present |-> FALSE, data |-> <<>>, lastUpdatedAt |-> NoStamp]

\* no Reconcile call of the object is running
NoPass ==
    [pc |-> "idle", ent |-> NoEntity("absent"), cm |-> NoConfigMap,
     entStale |-> FALSE, cmStale |-> FALSE]

\* nothing has been admitted or reconciled yet
NoLast ==
    [step |-> "init", e |-> 0, from |-> NoName, to |-> NoName, err |-> "none",
     state |-> "", wrote |-> "none", deferred |-> FALSE, changed |-> FALSE,
     resolver |-> "none", requeue |-> "none", persisted |-> FALSE,
     event |-> "none", added |-> FALSE, cleared |-> FALSE, previous |-> "",
     result |-> "none", ownerEvent |-> "none", statusUpdates |-> 0]

\* the controller part of a state in which no object and no ConfigMap exists
CtlIdle ==
    /\ entities = [e \in Entities |-> NoEntity("absent")]
    /\ configMap = NoConfigMap
    /\ clock = 0
    /\ pass = [e \in Entities |-> NoPass]
    /\ last = NoLast

\* no CheckRecord call was made yet
NoCheck ==
    [pc |-> "idle", inCluster |-> FALSE, expectedResult |-> "", configured |-> <<>>,
     cluster |-> [getService |-> "none", ports |-> <<>>, getEndpoints |-> "none",
                  subsets |-> <<>>],
     endpoints |-> <<>>, started |-> FALSE, next |-> 1, active |-> TRUE,
     merr |-> <<>>, cancelled |-> FALSE]

\* an owner without the annotation dns.cs.sap.com/masquerade-to and without
\* hosts; no dependent exists, no manageDependents call was made
NoManaged ==
    [seq |-> 0, err |-> "none", kept |-> {}, created |-> {}, deleted |-> {},
     fresh |-> FALSE]

DependentsIdle ==
    /\ obj = [phase |-> "present", to |-> NoName, hosts |-> <<>>, deleting |-> FALSE,
              finalizer |-> FALSE]
    /\ dependents = <<>>
    /\ nextUid = 1
    /\ managed = NoManaged

ResolverIdle ==
    /\ check = NoCheck
    /\ tasks = <<>>
    /\ results = <<>>

-----------------------------------------------------------------------------
(* State machine of the rule set *)

RS == [rulesByFrom |-> rulesByFrom, rulesByOwner |-> rulesByOwner]

NoOp == [name |-> "init", rule |-> NoRule]
NoRes == [err |-> "none", line |-> 0]

Init ==
    /\ rulesByFrom = NewRewriteRuleSet.rulesByFrom
    /\ rulesByOwner = NewRewriteRuleSet.rulesByOwner
    /\ text = <<>>
    /\ op = NoOp
    /\ res = NoRes
    /\ CtlIdle
    /\ ResolverIdle
    /\ DependentsIdle

AddRuleAct(r) ==
    LET out == AddRule(RS, r) IN
    /\ rulesByFrom' = out.rs.rulesByFrom
    /\ rulesByOwner' = out.rs.rulesByOwner
    /\ op' = [name |-> "AddRule", rule |-> r]
    /\ res' = [err |-> out.err, line |-> 0]
    /\ UNCHANGED text
    /\ UNCHANGED <<ctlVars, resolverVars, depVars>>

RemoveRuleAct(owner) ==
    LET out == RemoveRule(RS, owner) IN
    /\ rulesByFrom' = out.rs.rulesByFrom
    /\ rulesByOwner' = out.rs.rulesByOwner
    /\ op' = [name |-> "RemoveRule", rule |-> [NoRule EXCEPT !.Owner = owner]]
    /\ res' = [err |-> out.err, line |-> 0]
    /\ UNCHANGED text
    /\ UNCHANGED <<ctlVars, resolverVars, depVars>>

NextRules ==
    \/ \E r \in RuleArgs : AddRuleAct(r)
    \/ \E owner \in Owners : RemoveRuleAct(owner)

\* the rule set under arbitrary sequences of AddRule and RemoveRule calls
SpecRules == Init /\ [][NextRules]_vars

-----------------------------------------------------------------------------
(* State machine of the codec: String writes the artifact from the rule    *)
(* set, ParseRewriteRuleSet reads the rule set back from the artifact      *)

\* the orders in which a map with the key set S can yield its keys
Perms(S) ==
    {f \in [1..Cardinality(S) -> S] : \A i, j \in 1..Cardinality(S) : f[i] = f[j] => i = j}

RECURSIVE Built(_)
\* the rule sets that at most n AddRule calls build from the empty set
Built(n) ==
    IF n = 0 THEN {NewRewriteRuleSet}
    ELSE LET prev == Built(n - 1) IN
         prev \cup UNION {{AddRule(s, r).rs : r \in RuleArgs} : s \in prev}

InitCodec ==
    /\ \E s \in Built(MaxAdds) :
          /\ rulesByFrom = s.rulesByFrom
          /\ rulesByOwner = s.rulesByOwner
    /\ text = <<>>
    /\ op = NoOp
    /\ res = NoRes
    /\ CtlIdle
    /\ ResolverIdle
    /\ DependentsIdle

StringAct ==
    \E keys1, keys2 \in Perms(DOMAIN rulesByOwner) :
        /\ text' = String(RS, keys1, keys2)
        /\ op' = [name |-> "String", rule |-> NoRule]
        /\ res' = NoRes
        /\ UNCHANGED <<rulesByFrom, rulesByOwner>>
        /\ UNCHANGED <<ctlVars, resolverVars, depVars>>

ParseAct ==
    LET out == ParseRewriteRuleSet(text) IN
    /\ rulesByFrom' = IF out.err = "none" THEN out.rs.rulesByFrom ELSE rulesByFrom
    /\ rulesByOwner' = IF out.err = "none" THEN out.rs.rulesByOwner ELSE rulesByOwner
    /\ op' = [name |-> "Parse", rule |-> NoRule]
    /\ res' = [err |-> out.err, line |-> out.line]
    /\ UNCHANGED text
    /\ UNCHANGED <<ctlVars, resolverVars, depVars>>

NextCodec == StringAct \/ ParseAct

\* the codec on the rule sets AddRule builds
SpecCodec == InitCodec /\ [][NextCodec]_vars

-----------------------------------------------------------------------------
(* ParseRewriteRuleSet on artifacts that were edited from outside *)

\* the owner of a rule that somebody else wrote into the artifact
ForeignOwner == AllOwners[Len(AllOwners)]

\* rules that nothing validated
TamperRules ==
    {[Owner |-> ForeignOwner, From |-> WildFoo, To |-> NameT],
     [Owner |-> ForeignOwner, From |-> BadName, To |-> NameT],
     [Owner |-> ForeignOwner, From |-> WildFoo, To |-> Ip4]}

\* the k-th line is removed
DeleteLine(t, k) == SubSeq(t, 1, k - 1) \o SubSeq(t, k + 1, Len(t))

\* the text is cut behind its k-th line
Truncate(t, k) == SubSeq(t, 1, k)

\* the lines of a rule are written behind the text
AppendRule(t, r) ==
    t \o <<OwnerLine(0, r.Owner), FromLine(0, r.From), ToLine(0, r.To),
           Line(0, <<Word("rewrite"), Word("name"), Word("exact"), r.From, r.To>>)>>

OneEdit(t) ==
    {DeleteLine(t, k) : k \in 1..Len(t)}
        \cup {Truncate(t, k) : k \in 1..(Len(t) - 1)}
        \cup {AppendRule(t, r) : r \in TamperRules}

\* String of the set s, for one of the orders its keys can come in
SomeString(s) ==
    LET keys == CHOOSE f \in Perms(DOMAIN s.rulesByOwner) : TRUE IN String(s, keys, keys)

RECURSIVE EditedTexts(_)
\* what String wrote for a set AddRule built, after at most n edits
EditedTexts(n) ==
    IF n = 0
    THEN {SomeString(s) : s \in Built(MaxAdds)}
    ELSE LET prev == EditedTexts(n - 1) IN
         prev \cup UNION {OneEdit(t) : t \in prev}

InitParse ==
    /\ rulesByFrom = NewRewriteRuleSet.rulesByFrom
    /\ rulesByOwner = NewRewriteRuleSet.rulesByOwner
    /\ text \in EditedTexts(MaxEdits)
    /\ op = NoOp
    /\ res = NoRes
    /\ CtlIdle
    /\ ResolverIdle
    /\ DependentsIdle

NextParse == ParseAct

\* ParseRewriteRuleSet on the edited artifacts
SpecParse == InitParse /\ [][NextParse]_vars

-----------------------------------------------------------------------------
(* internal/webhooks/masqueradingrule_webhook.go, api/v1alpha1: admission *)

\* coredns.NewRewriteRule(owner, from, to): the rule, or the error of the
\* validation that rewrite.go makes of a rule's From and To
NewRewriteRule(owner, from, to) ==
    LET r == [Owner |-> owner, From |-> from, To |-> to] IN
    [err |-> AddRuleCheck(r), rule |-> r]

\* validate() without the test of a wildcard source with an IP address target
validateWildcardIp(from, to) ==
    IF ~CheckDnsName(from, TRUE) THEN "invalid .spec.from"
    ELSE IF IsIpAddress(to) THEN "none"
    ELSE (IF ~CheckDnsName(to, FALSE) THEN "invalid .spec.to" ELSE "none")

\* (r *MasqueradingRule) validate() of api/v1alpha1: "none" for a nil error
validate(from, to) ==
    IF ~CheckDnsName(from, TRUE) THEN "invalid .spec.from"
    ELSE IF IsIpAddress(to)
         THEN (IF IsWildcardDnsName(from) THEN "invalid .spec.to: wildcard with ip" ELSE "none")
         ELSE (IF ~CheckDnsName(to, FALSE) THEN "invalid .spec.to" ELSE "none")

\* (w *MasqueradingRuleWebhook) validate(masqueradingRule): "none" for a nil error
WebhookValidate(from, to) ==
    IF NewRewriteRule(<<>>, from, to).err # "none"
    THEN "invalid rule specification"
    ELSE "none"

\* ValidateDelete returns nil, nil
ValidateDelete == "none"

-----------------------------------------------------------------------------
(* internal/controllers/masqueradingrule_controller.go: Reconcile *)

\* r.CorednsConfigMapUpdateDelay, in ticks of the clock
CorednsConfigMapUpdateDelay == 1

\* changed, err := ruleset.AddRule(rule)
ControllerAddRule(rs, r) ==
    LET out == AddRule(rs, r) IN
    [changed |-> (out.err = "none" /\ out.rs # rs), err |-> out.err, rs |-> out.rs]

\* changed := ruleset.RemoveRule(owner)
ControllerRemoveRule(rs, owner) ==
    [changed |-> owner \in DOMAIN rs.rulesByOwner, rs |-> RemoveRule(rs, owner).rs]

\* coredns.ParseRewriteRuleSet(configMap.Data[r.CorednsConfigMapKey])
LoadRuleSet(data) == ParseRewriteRuleSet(data)

\* the debounce test puts no limit on the time of the write
UpdateGateOpen(cm, now) ==
    IF cm.lastUpdatedAt = BadStamp THEN "invalid timestamp" ELSE "go"

\* the test of the annotation dns.cs.sap.com/last-updated-at before an update:
\* "go", "defer" or the error of time.Parse
UpdateGate(cm, now) ==
    IF cm.lastUpdatedAt = NoStamp THEN "go"
    ELSE IF cm.lastUpdatedAt = BadStamp THEN "invalid timestamp"
    ELSE IF now < cm.lastUpdatedAt + CorednsConfigMapUpdateDelay THEN "defer"
    ELSE "go"

\* what a Reconcile call holds when it has read the object and the ConfigMap
PassStart(p) ==
    [err |-> "none", state |-> p.ent.state, msg |-> p.ent.msg, added |-> FALSE,
     cleared |-> FALSE, wrote |-> "none", cm |-> p.cm, deferred |-> FALSE,
     changed |-> FALSE, resolver |-> "none", requeue |-> "none", skip |-> FALSE,
     event |-> "none"]

MsgProcessing == "waiting for masquerading rule to be reconciled"

\* the ConfigMap is written although a rule change is pending: no return
\* behind the update, the DNS check follows
UpdateConfigMapNoReturn(b, p, rs, now) ==
    LET b1 == [b EXCEPT !.changed = TRUE] IN
    IF UpdateGate(p.cm, now) = "invalid timestamp"
    THEN [b1 EXCEPT !.err = "invalid timestamp"]
    ELSE IF UpdateGate(p.cm, now) = "defer"
    THEN [b1 EXCEPT !.deferred = TRUE, !.requeue = "1s"]
    ELSE IF p.cmStale
    THEN [b1 EXCEPT !.err = "error updating config map"]
    ELSE [b1 EXCEPT !.wrote = "update", !.state = "Ready", !.resolver = "active",
                    !.requeue = "10m",
                    !.cm = [present |-> TRUE, data |-> SomeString(rs), lastUpdatedAt |-> now]]

\* the API server accepts the update of a ConfigMap version that is not the
\* latest
UpdateConfigMapBlind(b, p, rs, now) ==
    LET b1 == [b EXCEPT !.changed = TRUE] IN
    IF UpdateGate(p.cm, now) = "invalid timestamp"
    THEN [b1 EXCEPT !.err = "invalid timestamp"]
    ELSE IF UpdateGate(p.cm, now) = "defer"
    THEN [b1 EXCEPT !.deferred = TRUE, !.requeue = "1s"]
    ELSE [b1 EXCEPT !.wrote = "update", !.requeue = "1s",
                    !.cm = [present |-> TRUE, data |-> SomeString(rs), lastUpdatedAt |-> now]]

\* lines 213-243 and 273-303: the debounce test and the update of the ConfigMap;
\* b holds the state that SetState has set before
UpdateConfigMap(b, p, rs, now) ==
    LET b1 == [b EXCEPT !.changed = TRUE] IN
    IF UpdateGate(p.cm, now) = "invalid timestamp"
    THEN [b1 EXCEPT !.err = "invalid timestamp"]
    ELSE IF UpdateGate(p.cm, now) = "defer"
    THEN [b1 EXCEPT !.deferred = TRUE, !.requeue = "1s"]
    ELSE IF p.cmStale
    THEN [b1 EXCEPT !.err = "error updating config map"]
    ELSE [b1 EXCEPT !.wrote = "update", !.requeue = "1s",
                    !.cm = [present |-> TRUE, data |-> SomeString(rs), lastUpdatedAt |-> now]]

\* the requeue intervals of the two answers are exchanged
CheckRecordOutcomeSwapped(b, rr) ==
    IF rr = "error" THEN [b EXCEPT !.err = "error check DNS record", !.resolver = rr]
    ELSE IF rr = "active"
    THEN [b EXCEPT !.state = "Ready", !.msg = "masquerading rule completely reconciled",
                   !.resolver = rr, !.requeue = "10s", !.event = "ReconcilationSucceeded"]
    ELSE [b EXCEPT !.state = "Processing", !.msg = MsgProcessing,
                   !.resolver = rr, !.requeue = "10m", !.event = "ReconcilationProcessing"]

\* lines 246-261: the DNS check and what follows from it
CheckRecordOutcome(b, rr) ==
    IF rr = "error" THEN [b EXCEPT !.err = "error check DNS record", !.resolver = rr]
    ELSE IF rr = "active"
    THEN [b EXCEPT !.state = "Ready", !.msg = "masquerading rule completely reconciled",
                   !.resolver = rr, !.requeue = "10m", !.event = "ReconcilationSucceeded"]
    ELSE [b EXCEPT !.state = "Processing", !.msg = MsgProcessing,
                   !.resolver = rr, !.requeue = "10s", !.event = "ReconcilationProcessing"]

\* the created ConfigMap is taken to be in effect at once
CreateConfigMapReady(b, p, rule) ==
    LET add == ControllerAddRule(NewRewriteRuleSet, rule) IN
    IF add.err # "none" THEN [b EXCEPT !.err = add.err]
    ELSE LET b1 == [b EXCEPT !.state = "Ready", !.msg = "masquerading rule completely reconciled"] IN
         IF p.cmStale
         THEN [b1 EXCEPT !.err = "error creating config map"]
         ELSE [b1 EXCEPT !.wrote = "create", !.requeue = "10m",
                         !.cm = [present |-> TRUE, data |-> SomeString(add.rs),
                                 lastUpdatedAt |-> NoStamp]]

\* lines 184-203: no ConfigMap was found, one is created with the rule alone
CreateConfigMap(b, p, rule) ==
    LET add == ControllerAddRule(NewRewriteRuleSet, rule) IN
    IF add.err # "none" THEN [b EXCEPT !.err = add.err]
    ELSE LET b1 == [b EXCEPT !.state = "Processing", !.msg = MsgProcessing] IN
         IF p.cmStale
         THEN [b1 EXCEPT !.err = "error creating config map"]
         ELSE [b1 EXCEPT !.wrote = "create", !.requeue = "1s",
                         !.cm = [present |-> TRUE, data |-> SomeString(add.rs),
                                 lastUpdatedAt |-> NoStamp]]

\* lines 204-261: the ConfigMap was found
AddToConfigMap(b, p, rule, now, rr) ==
    LET ruleset == LoadRuleSet(p.cm.data) IN
    IF ruleset.err # "none" THEN [b EXCEPT !.err = "error loading rewrite rules"]
    ELSE LET add == ControllerAddRule(ruleset.rs, rule) IN
         IF add.err # "none" THEN [b EXCEPT !.err = add.err]
         ELSE IF add.changed
         THEN UpdateConfigMap([b EXCEPT !.state = "Processing", !.msg = MsgProcessing],
                              p, add.rs, now)
         ELSE CheckRecordOutcome(b, rr)

\* the rule is written for an object that was not given the finalizer
CreateOrUpdateCaseNoFinalizer(p, owner, now, rr) ==
    LET b == PassStart(p)
        nr == NewRewriteRule(owner, p.ent.from, p.ent.to)
    IN  IF nr.err # "none" THEN [b EXCEPT !.err = nr.err]
        ELSE IF ~p.cm.present THEN CreateConfigMap(b, p, nr.rule)
        ELSE AddToConfigMap(b, p, nr.rule, now, rr)

\* lines 170-261: the object is not marked for deletion
CreateOrUpdateCase(p, owner, now, rr) ==
    LET b == PassStart(p) IN
    IF ~p.ent.own /\ p.entStale THEN [b EXCEPT !.err = "error setting finalizer"]
    ELSE LET b1 == [b EXCEPT !.added = ~p.ent.own]
             nr == NewRewriteRule(owner, p.ent.from, p.ent.to)
         IN  IF nr.err # "none" THEN [b1 EXCEPT !.err = nr.err]
             ELSE IF ~p.cm.present THEN CreateConfigMap(b1, p, nr.rule)
             ELSE AddToConfigMap(b1, p, nr.rule, now, rr)

\* the finalizer is cleared without a look at the ConfigMap
DeletionCaseNoRemove(p, owner, now) ==
    LET b == PassStart(p) IN
    IF p.ent.own /\ p.entStale THEN [b EXCEPT !.err = "error clearing finalizer"]
    ELSE [b EXCEPT !.cleared = p.ent.own, !.skip = TRUE]

\* mutant: the finalizer stays when the rule is gone
DeletionCaseKeepFinalizer(p, owner, now) ==
    LET b == PassStart(p)
        ruleset == LoadRuleSet(p.cm.data)
        rem == ControllerRemoveRule(ruleset.rs, owner)
    IN  IF p.cm.present /\ ruleset.err # "none"
        THEN [b EXCEPT !.err = "error loading rewrite rules"]
        ELSE IF p.cm.present /\ rem.changed
        THEN UpdateConfigMap([b EXCEPT !.state = "Deleting",
                                       !.msg = "waiting for masquerading rule to be deleted"],
                             p, rem.rs, now)
        ELSE [b EXCEPT !.state = "Deleting", !.requeue = "1s"]

\* lines 265-317: the object is marked for deletion and has no foreign finalizer
DeletionCase(p, owner, now) ==
    LET b == PassStart(p)
        ruleset == LoadRuleSet(p.cm.data)
        rem == ControllerRemoveRule(ruleset.rs, owner)
    IN  IF p.cm.present /\ ruleset.err # "none"
        THEN [b EXCEPT !.err = "error loading rewrite rules"]
        ELSE IF p.cm.present /\ rem.changed
        THEN UpdateConfigMap([b EXCEPT !.state = "Deleting",
                                       !.msg = "waiting for masquerading rule to be deleted"],
                             p, rem.rs, now)
        ELSE IF p.ent.own /\ p.entStale THEN [b EXCEPT !.err = "error clearing finalizer"]
        ELSE [b EXCEPT !.cleared = p.ent.own, !.skip = TRUE]

\* foreign finalizers do not hold the deletion back
ReconcileBodyUnblocked(p, owner, now, rr) ==
    IF ~p.ent.deleting THEN CreateOrUpdateCase(p, owner, now, rr)
    ELSE DeletionCase(p, owner, now)

\* lines 170-317 of Reconcile, on what the call has read; rr is what
\* r.Resolver.CheckRecord returns if it is called
ReconcileBody(p, owner, now, rr) ==
    IF ~p.ent.deleting THEN CreateOrUpdateCase(p, owner, now, rr)
    ELSE IF p.ent.foreign
    THEN [PassStart(p) EXCEPT !.state = "DeletionBlocked",
                              !.msg = "Deletion blocked due to foreign finalizers",
                              !.requeue = "10s"]
    ELSE DeletionCase(p, owner, now)

\* the error of r.Status().Update for an object that has changed since the read
StatusRefused == "status update refused"

\* utilerrors.NewAggregate([]error{err, updateErr}): nil errors are left out
Aggregate(err, updateErr) ==
    IF err = "none" THEN updateErr ELSE err \o "; " \o updateErr

\* the deferred function leaves the state as the body set it
StatusDeferKeepState(b, entStale) ==
    LET statusOk == ~b.skip /\ ~entStale IN
    [err |-> IF b.skip \/ statusOk THEN b.err ELSE Aggregate(b.err, StatusRefused),
     state |-> b.state,
     msg |-> b.msg,
     event |-> b.event,
     requeue |-> IF b.skip \/ statusOk THEN b.requeue ELSE "none",
     persisted |-> statusOk,
     statusUpdates |-> IF b.skip THEN 0 ELSE 1]

\* the deferred function does not look at skipStatusUpdate: the status of an
\* object whose last finalizer was cleared is updated, and the API server
\* answers NotFound
StatusDeferNoSkip(b, entStale) ==
    LET failed == b.err # "none"
        statusOk == ~entStale /\ ~b.cleared
    IN  [err |-> IF statusOk THEN b.err ELSE Aggregate(b.err, StatusRefused),
         state |-> IF failed THEN "Error" ELSE b.state,
         msg |-> IF failed THEN b.err ELSE b.msg,
         event |-> IF failed THEN "ReconciliationFailed" ELSE b.event,
         requeue |-> IF statusOk THEN b.requeue ELSE "none",
         persisted |-> statusOk,
         statusUpdates |-> 1]

\* lines 86-100: the deferred function that sets the state Error, records the
\* warning event and updates the status; entStale: the object has changed
\* since it was read, the update of its status is refused
StatusDefer(b, entStale) ==
    LET failed == ~b.skip /\ b.err # "none"
        statusOk == ~b.skip /\ ~entStale
    IN  [err |-> IF b.skip \/ statusOk THEN b.err ELSE Aggregate(b.err, StatusRefused),
         state |-> IF failed THEN "Error" ELSE b.state,
         msg |-> IF failed THEN b.err ELSE b.msg,
         event |-> IF failed THEN "ReconciliationFailed" ELSE b.event,
         requeue |-> IF b.skip \/ statusOk THEN b.requeue ELSE "none",
         persisted |-> statusOk,
         statusUpdates |-> IF b.skip THEN 0 ELSE 1]

\* the objects that carry the labels of an owner (labelControllerUid and the
\* others): the first one
HasControllerLabels(e) == e = 1

\* lines 103-144: the deferred function that records an event on the owner;
\* it is registered after the one of lines 88-100 and so runs before it, on
\* the state that the body of Reconcile has left: a body that returns an
\* error has not set the state Error, the other deferred function will
OwnerEventDefer(e, state, previous) ==
    IF ~HasControllerLabels(e) THEN "none"
    ELSE IF state = "Ready" /\ previous # "Ready" THEN "ReconciliationSucceeded"
    ELSE IF state = "Error" /\ previous # "Error" THEN "ReconciliationFailed"
    ELSE "none"

\* the outcome of a Reconcile call, as last holds it: previous is the state
\* of previousMasqueradingRuleStatus, result the ctrl.Result of the return
\* statement and requeue the one that the deferred function leaves
Outcome(e, ent, b, d) ==
    [step |-> "reconcile", e |-> e, from |-> ent.from, to |-> ent.to, err |-> d.err,
     state |-> d.state, wrote |-> b.wrote, deferred |-> b.deferred, changed |-> b.changed,
     resolver |-> b.resolver, requeue |-> d.requeue, persisted |-> d.persisted,
     event |-> d.event, added |-> b.added, cleared |-> b.cleared, previous |-> ent.state,
     result |-> b.requeue, ownerEvent |-> OwnerEventDefer(e, b.state, ent.state),
     statusUpdates |-> d.statusUpdates]

-----------------------------------------------------------------------------
(* State machine of the controller: the objects, the ConfigMap, the clock   *)
(* and the Reconcile calls of the workers (MaxConcurrentReconciles: 3, at   *)
(* most one call per object at a time). A call reads the object and the     *)
(* ConfigMap (ReconcileLoad) and later decides and writes (ReconcileFinish);*)
(* the API server refuses the write of an object or ConfigMap that has      *)
(* changed since the call read it.                                          *)

\* the specifications that users declare
SpecFroms == {NameA, WildFoo}
SpecTos == {NameT, Ip4}

\* what users ask the webhook for: the above and names that are not valid
AskedFroms == SpecFroms \cup {BadName}
AskedTos == SpecTos \cup {WildT}

\* every running call that has read the ConfigMap now holds an old version
StaleConfigMap(ps, written) ==
    [f \in DOMAIN ps |->
        IF written /\ ps[f].pc = "loaded" THEN [ps[f] EXCEPT !.cmStale = TRUE] ELSE ps[f]]

\* the running call of the object e now holds an old version of it
StaleEntity(ps, e) ==
    [ps EXCEPT ![e] = IF ps[e].pc = "loaded" THEN [ps[e] EXCEPT !.entStale = TRUE] ELSE ps[e]]

\* what the webhook answered to the request verb
AdmissionOutcome(verb, e, from, to, err) ==
    [NoLast EXCEPT !.step = verb, !.e = e, !.from = from, !.to = to, !.err = err]

\* a user creates the object e; the validating webhook runs ValidateCreate
CreateEntity(e, from, to, foreign) ==
    /\ entities[e].phase = "absent"
    /\ LET err == WebhookValidate(from, to) IN
       /\ entities' = IF err # "none" THEN entities
                      ELSE [entities EXCEPT ![e] =
                              [phase |-> "present", from |-> from, to |-> to, state |-> "",
                               msg |-> "", own |-> FALSE, foreign |-> foreign,
                               deleting |-> FALSE, generation |-> 1,
                               observedGeneration |-> 0]]
       /\ last' = AdmissionOutcome("create", e, from, to, err)
    /\ UNCHANGED <<configMap, clock, pass>>
    /\ UNCHANGED <<rsVars, resolverVars, depVars>>

\* a user changes .spec of the object e; the validating webhook runs ValidateUpdate
UpdateEntity(e, from, to) ==
    /\ entities[e].phase = "present"
    /\ ~entities[e].deleting
    /\ <<from, to>> # <<entities[e].from, entities[e].to>>
    /\ LET err == WebhookValidate(from, to) IN
       /\ err = "none" => entities[e].generation < MaxGeneration
       /\ entities' = IF err # "none" THEN entities
                      ELSE [entities EXCEPT ![e].from = from, ![e].to = to,
                                            ![e].generation = @ + 1]
       /\ pass' = IF err # "none" THEN pass ELSE StaleEntity(pass, e)
       /\ last' = AdmissionOutcome("update", e, from, to, err)
    /\ UNCHANGED <<configMap, clock>>
    /\ UNCHANGED <<rsVars, resolverVars, depVars>>

\* a user deletes the object e; ValidateDelete admits it; the API server
\* removes an object without finalizers and marks the others for deletion
DeleteEntity(e) ==
    /\ entities[e].phase = "present"
    /\ ~entities[e].deleting
    /\ ValidateDelete = "none"
    /\ entities' = [entities EXCEPT ![e] =
                      IF ~entities[e].own /\ ~entities[e].foreign
                      THEN NoEntity("gone")
                      ELSE [entities[e] EXCEPT !.deleting = TRUE]]
    /\ pass' = StaleEntity(pass, e)
    /\ last' = AdmissionOutcome("delete", e, entities[e].from, entities[e].to, ValidateDelete)
    /\ UNCHANGED <<configMap, clock>>
    /\ UNCHANGED <<rsVars, resolverVars, depVars>>

\* somebody else clears the foreign finalizer of the object e
RemoveForeignFinalizer(e) ==
    /\ entities[e].phase = "present"
    /\ entities[e].foreign
    /\ entities' = [entities EXCEPT ![e] =
                      IF entities[e].deleting /\ ~entities[e].own
                      THEN NoEntity("gone")
                      ELSE [entities[e] EXCEPT !.foreign = FALSE]]
    /\ pass' = StaleEntity(pass, e)
    /\ UNCHANGED <<configMap, clock, last>>
    /\ UNCHANGED <<rsVars, resolverVars, depVars>>

\* somebody else writes the object e (a label, an annotation): the version
\* that a running call has read is not the latest any more
TouchEntity(e) ==
    /\ entities[e].phase = "present"
    /\ pass[e].pc = "loaded"
    /\ ~pass[e].entStale
    /\ pass' = StaleEntity(pass, e)
    /\ UNCHANGED <<entities, configMap, clock, last>>
    /\ UNCHANGED <<rsVars, resolverVars, depVars>>

\* a line that no expression of the parser accepts
GarbageLine == Line(0, <<Word("garbage")>>)

\* somebody edits the ConfigMap so that it cannot be decoded any more
TamperConfigMap(kind) ==
    /\ configMap.present
    /\ configMap.lastUpdatedAt # BadStamp
    /\ LoadRuleSet(configMap.data).err = "none"
    /\ configMap' = IF kind = "data"
                    THEN [configMap EXCEPT !.data = @ \o <<GarbageLine>>]
                    ELSE [configMap EXCEPT !.lastUpdatedAt = BadStamp]
    /\ pass' = StaleConfigMap(pass, TRUE)
    /\ UNCHANGED <<entities, clock, last>>
    /\ UNCHANGED <<rsVars, resolverVars, depVars>>

\* somebody deletes the ConfigMap: the next Get of it returns NotFound
RemoveConfigMap ==
    /\ configMap.present
    /\ configMap' = NoConfigMap
    /\ pass' = StaleConfigMap(pass, TRUE)
    /\ UNCHANGED <<entities, clock, last>>
    /\ UNCHANGED <<rsVars, resolverVars, depVars>>

\* time passes; once the delay since the last update is over, more time
\* changes no decision of a Reconcile call and is not counted
Tick ==
    /\ clock < MaxTime
    /\ configMap.lastUpdatedAt >= 0
    /\ clock < configMap.lastUpdatedAt + CorednsConfigMapUpdateDelay
    /\ clock' = clock + 1
    /\ UNCHANGED <<entities, configMap, pass, last>>
    /\ UNCHANGED <<rsVars, resolverVars, depVars>>

\* the outcome of a Reconcile call that ends before it has read the ConfigMap;
\* the body has left the state as it was or has set New: no event on the owner;
\* the status update of the deferred function, where there is one, is accepted
EarlyOutcome(e, ent, err, state, requeue, persisted, event) ==
    [NoLast EXCEPT !.step = "reconcile", !.e = e, !.from = ent.from, !.to = ent.to,
                   !.err = err, !.state = state, !.requeue = requeue,
                   !.persisted = persisted, !.event = event, !.previous = ent.state,
                   !.result = requeue, !.statusUpdates = IF persisted THEN 1 ELSE 0]

\* mutant: the generation is not acknowledged
AcknowledgedGenerationKept(ent, added) == ent.observedGeneration

\* line 84 and the status update of line 96: the observedGeneration that
\* the call stores. The Update of line 175 (the finalizer) reads the object
\* back from the API server, status included, and so undoes line 84
AcknowledgedGeneration(ent, added) ==
    IF added THEN ent.observedGeneration ELSE ent.generation

\* no object counts as fresh
HasNoStateNever(ent) == FALSE

\* line 147: masqueradingRule.Status.State == ""
HasNoState(ent) == ent.state = ""

\* lines 65-163 of Reconcile: a worker takes the object e from the queue and
\* reads it and the ConfigMap; fault says which of the two Get calls the API
\* server fails with an error other than NotFound, if any
ReconcileLoad(e, fault) ==
    /\ pass[e].pc = "idle"
    /\ LET ent == entities[e] IN
       IF fault = "entity"
       THEN \* line 73: return before the deferred functions exist
            /\ last' = EarlyOutcome(e, NoEntity("absent"), "unexpected get error", "", "none", FALSE, "none")
            /\ UNCHANGED <<entities, pass>>
       ELSE IF ent.phase # "present"
       THEN \* line 76: not found; ignoring
            /\ last' = EarlyOutcome(e, ent, "none", "", "none", FALSE, "none")
            /\ UNCHANGED <<entities, pass>>
       ELSE IF HasNoState(ent)
       THEN \* lines 147-150: a first status, and the deferred update of it
            /\ entities' = [entities EXCEPT ![e].state = "New", ![e].msg = "First seen",
                                            ![e].observedGeneration =
                                               AcknowledgedGeneration(ent, FALSE)]
            /\ last' = EarlyOutcome(e, ent, "none", "New", "now", TRUE, "none")
            /\ UNCHANGED pass
       ELSE IF fault = "configMap"
       THEN \* line 156, and the deferred update of the status
            /\ entities' = [entities EXCEPT ![e].state = "Error",
                                            ![e].msg = "unexpected get error",
                                            ![e].observedGeneration =
                                               AcknowledgedGeneration(ent, FALSE)]
            /\ last' = EarlyOutcome(e, ent, "unexpected get error", "Error", "none", TRUE,
                                    "ReconciliationFailed")
            /\ UNCHANGED pass
       ELSE /\ pass' = [pass EXCEPT ![e] = [pc |-> "loaded", ent |-> ent, cm |-> configMap,
                                            entStale |-> FALSE, cmStale |-> FALSE]]
            /\ UNCHANGED <<entities, last>>
    /\ UNCHANGED <<configMap, clock>>
    /\ UNCHANGED <<rsVars, resolverVars, depVars>>

\* the object e in the API server after the call has made its updates of it
EntityAfter(cur, p, b, d) ==
    IF p.entStale THEN cur
    ELSE IF b.cleared THEN NoEntity("gone")
    ELSE LET withFin == [cur EXCEPT !.own = cur.own \/ b.added] IN
         IF d.persisted
         THEN [withFin EXCEPT !.state = d.state, !.msg = d.msg,
                              !.observedGeneration = AcknowledgedGeneration(p.ent, b.added)]
         ELSE withFin

\* lines 165-317 of Reconcile and its deferred functions: the call of the
\* object e decides on what it has read, writes and returns
ReconcileFinish(e, rr) ==
    /\ pass[e].pc = "loaded"
    /\ \E b \in {ReconcileBody(pass[e], OwnerOf(e), clock, rr)} :
       \E d \in {StatusDefer(b, pass[e].entStale)} :
          /\ entities' = [entities EXCEPT ![e] = EntityAfter(entities[e], pass[e], b, d)]
          /\ configMap' = IF b.wrote # "none" THEN b.cm ELSE configMap
          /\ pass' = [StaleConfigMap(pass, b.wrote # "none") EXCEPT ![e] = NoPass]
          /\ last' = Outcome(e, pass[e].ent, b, d)
    /\ UNCHANGED clock
    /\ UNCHANGED <<rsVars, resolverVars, depVars>>

\* the rule-set variables are not used by the controller
InitController ==
    /\ rulesByFrom = NewRewriteRuleSet.rulesByFrom
    /\ rulesByOwner = NewRewriteRuleSet.rulesByOwner
    /\ text = <<>>
    /\ op = NoOp
    /\ res = NoRes
    /\ CtlIdle
    /\ ResolverIdle
    /\ DependentsIdle

NextController ==
    \/ \E e \in Entities, from \in SpecFroms, to \in SpecTos, ff \in BOOLEAN :
          CreateEntity(e, from, to, ff)
    \/ \E e \in Entities, from \in SpecFroms, to \in SpecTos : UpdateEntity(e, from, to)
    \/ \E e \in Entities : DeleteEntity(e)
    \/ \E e \in Entities : RemoveForeignFinalizer(e)
    \/ TamperConfigMap("data")
    \/ Tick
    \/ \E e \in Entities, fault \in {"none", "entity", "configMap"} : ReconcileLoad(e, fault)
    \/ \E e \in Entities, rr \in {"active", "inactive", "error"} : ReconcileFinish(e, rr)

\* the controller with its users, the other writers and the clock
SpecController == InitController /\ [][NextController]_vars

\* the .spec that the user of the first object asks for in an update; the
\* webhook refuses the last one
SpecUpdates == {<<NameA, NameT>>, <<WildFoo, NameT>>, <<WildFoo, Ip4>>}

\* no Reconcile call is running
NoneRunning == \A f \in Entities : pass[f].pc = "idle"

\* The behaviours of SpecController are explored in three parts, each with
\* the same actions in a smaller environment.
\*
\* One worker: the calls run one after the other while users create and
\* delete objects and ask for a wildcard source with an IP address target, somebody damages the ConfigMap, the API server fails Get
\* calls and the resolver gives any of its three answers.
NextPasses ==
    \/ \E e \in Entities, from \in AskedFroms, to \in AskedTos : CreateEntity(e, from, to, FALSE)
    \/ \E e \in Entities : UpdateEntity(e, WildFoo, Ip4)
    \/ \E e \in Entities : DeleteEntity(e)
    \/ TamperConfigMap("data")
    \/ Tick
    \/ \E e \in Entities, fault \in {"none", "entity", "configMap"} :
          NoneRunning /\ ReconcileLoad(e, fault)
    \/ \E e \in Entities, rr \in {"active", "inactive", "error"} : ReconcileFinish(e, rr)

SpecPasses == InitController /\ [][NextPasses]_vars

\* Racing writers: the calls of different objects run at the same time, the
\* first object changes its .spec.from, the resolver finds every record.
NextRace ==
    \/ \E e \in Entities, from \in SpecFroms : CreateEntity(e, from, NameT, FALSE)
    \/ \E sp \in SpecUpdates : UpdateEntity(1, sp[1], sp[2])
    \/ \E e \in Entities : DeleteEntity(e)
    \/ Tick
    \/ \E e \in Entities : ReconcileLoad(e, "none")
    \/ \E e \in Entities : ReconcileFinish(e, "active")

SpecRace == InitController /\ [][NextRace]_vars

\* the .spec.from of the object e in SpecDeletion
DeletionFrom(e) == IF e = 1 THEN NameA ELSE NameB

\* Deletion: objects with and without foreign finalizers are created and
\* deleted while the calls of different objects run at the same time and
\* somebody damages the annotation of the ConfigMap.
NextDeletion ==
    \/ \E e \in Entities, ff \in BOOLEAN : CreateEntity(e, DeletionFrom(e), NameT, ff)
    \/ \E e \in Entities : DeleteEntity(e)
    \/ \E e \in Entities : RemoveForeignFinalizer(e)
    \/ TamperConfigMap("stamp")
    \/ Tick
    \/ \E e \in Entities, fault \in {"none", "configMap"} : ReconcileLoad(e, fault)
    \/ \E e \in Entities : ReconcileFinish(e, "active")

SpecDeletion == InitController /\ [][NextDeletion]_vars

\* Absent ConfigMap: somebody deletes the ConfigMap while objects are created
\* and deleted and their calls run at the same time; the resolver finds the
\* record or does not.
NextAbsent ==
    \/ \E e \in Entities : CreateEntity(e, DeletionFrom(e), NameT, FALSE)
    \/ \E e \in Entities : DeleteEntity(e)
    \/ RemoveConfigMap
    \/ Tick
    \/ \E e \in Entities : ReconcileLoad(e, "none")
    \/ \E e \in Entities, rr \in {"active", "inactive"} : ReconcileFinish(e, rr)

SpecAbsent == InitController /\ [][NextAbsent]_vars

\* Status updates: objects are created and deleted and written by others
\* while their calls run, the API server fails Get calls, and the resolver
\* finds the record or fails.
NextStatus ==
    \/ \E e \in Entities : CreateEntity(e, DeletionFrom(e), NameT, FALSE)
    \/ \E e \in Entities : DeleteEntity(e)
    \/ \E e \in Entities : TouchEntity(e)
    \/ Tick
    \/ \E e \in Entities, fault \in {"none", "entity", "configMap"} : ReconcileLoad(e, fault)
    \/ \E e \in Entities, rr \in {"active", "error"} : ReconcileFinish(e, rr)

SpecStatus == InitController /\ [][NextStatus]_vars

RECURSIVE LiveFrom(_)
\* the .spec.from of the object e in SpecLive: no two of them conflict, not
\* even after the changes of LiveUpdates
LiveFrom(e) ==
    IF e = 1 THEN NameA
    ELSE IF e = 2 THEN NameB
    ELSE <<"t">> \o LiveFrom(e - 1)

\* the changes of .spec in the behaviours with fair scheduling
LiveUpdates == {<<WildFoo, NameT>>, <<NameA, Ip4>>}

\* creation and update only: the rules of the two objects do not conflict,
\* no object is deleted, nobody but the controller writes the ConfigMap, a
\* Get may fail, and the resolver, which is asked only when the ConfigMap
\* holds the rule, reports it as active
NextLive ==
    \/ \E e \in Entities : CreateEntity(e, LiveFrom(e), NameT, FALSE)
    \/ \E sp \in LiveUpdates : UpdateEntity(1, sp[1], sp[2])
    \/ Tick
    \/ \E e \in Entities, fault \in {"none", "configMap"} : ReconcileLoad(e, fault)
    \/ \E e \in Entities : ReconcileFinish(e, "active")

\* the step ReconcileFinish(e, rr) by what it does to pass: the call of the
\* object e ends, the other calls are stale if the ConfigMap was written
ReconcileFinishStep(e) ==
    /\ pass[e].pc = "loaded"
    /\ \E written \in BOOLEAN :
          pass' = [StaleConfigMap(pass, written) EXCEPT ![e] = NoPass]

\* the work queue hands every object to a worker again and again (every
\* return of Reconcile requeues, with or without delay, and the 10 minutes
\* after Ready pass), the Get calls of such a call succeed in the end, a
\* call that has read its objects runs to its return, and time passes
FairLive ==
    /\ WF_vars(Tick)
    /\ \A e \in Entities :
          /\ WF_vars(ReconcileLoad(e, "none"))
          /\ WF_pass(ReconcileFinishStep(e))

SpecLive == InitController /\ [][NextLive]_vars /\ FairLive

\* the objects of the fair behaviours with deletion: object e needs the
\* instants 2e-3 and 2e-2 for the debounced writes that add and remove its rule
DeletionLiveEntities == {e \in Entities : 2 * e - 2 <= MaxTime}

\* creation and deletion: the first object with or without a foreign
\* finalizer, the ConfigMap stays decodable, a Get may fail
NextLiveDeletion ==
    \/ \E e \in DeletionLiveEntities : \E ff \in {FALSE, e = 1} :
          CreateEntity(e, DeletionFrom(e), NameT, ff)
    \/ \E e \in DeletionLiveEntities : DeleteEntity(e)
    \/ \E e \in DeletionLiveEntities : RemoveForeignFinalizer(e)
    \/ Tick
    \/ \E e \in DeletionLiveEntities, fault \in {"none", "configMap"} : ReconcileLoad(e, fault)
    \/ \E e \in DeletionLiveEntities : ReconcileFinish(e, "active")

\* as FairLive, and whoever holds a foreign finalizer removes it in the end
FairLiveDeletion ==
    /\ WF_vars(Tick)
    /\ \A e \in DeletionLiveEntities :
          /\ WF_vars(ReconcileLoad(e, "none"))
          /\ WF_pass(ReconcileFinishStep(e))
          /\ WF_vars(RemoveForeignFinalizer(e))

SpecLiveDeletion == InitController /\ [][NextLiveDeletion]_vars /\ FairLiveDeletion

-----------------------------------------------------------------------------
(* The resolver: CheckRecord, its goroutines, and the discovery of endpoints *)

\* the number of endpoints a resolver is configured with
MaxEndpoints == 2

\* what the name server answers to a query: a technical error, name not
\* found, or addresses in the order the server sent them (an address is
\* represented by its last octet)
Answers ==
    {[kind |-> "error", addrs |-> <<>>],
     [kind |-> "notfound", addrs |-> <<>>],
     [kind |-> "ok", addrs |-> <<1>>],
     [kind |-> "ok", addrs |-> <<1, 2>>],
     [kind |-> "ok", addrs |-> <<2, 1>>]}

\* the answers of the two queries of a goroutine before they were made
NoAnswer == [kind |-> "none", addrs |-> <<>>]

\* dnsutil.Lookup: nil without error if the host was not found, the error
\* of the query otherwise, or the sorted addresses
Lookup(answer) ==
    IF answer.kind = "error" THEN [addresses |-> <<>>, err |-> "lookup failed"]
    ELSE IF answer.kind = "notfound" THEN [addresses |-> <<>>, err |-> "none"]
    ELSE [addresses |-> SortSeq(answer.addrs, LAMBDA a, b : a < b), err |-> "none"]

\* pairs.New(x, y); y is the list of errors of a multierror, <<>> for nil
Pair(x, y) == [X |-> x, Y |-> y]

\* multierror.Append(merr, err) for an error of endpoint i
MultierrorAppend(merr, i, err) ==
    IF err = "none" THEN merr ELSE Append(merr, <<i, err>>)

\* mutant: two names that resolve to nothing are taken as equal
VerdictEmptyEqual(expectedResult, merr, addresses, expectedAddresses) ==
    IF expectedResult = ""
    THEN Pair(merr = <<>> /\ Len(addresses) = 0, merr)
    ELSE Pair(merr = <<>> /\ addresses = expectedAddresses, merr)

\* what a goroutine sends after its lookups
Verdict(expectedResult, merr, addresses, expectedAddresses) ==
    IF expectedResult = ""
    THEN Pair(merr = <<>> /\ Len(addresses) = 0, merr)
    ELSE Pair(merr = <<>> /\ Len(addresses) > 0 /\ addresses = expectedAddresses, merr)

\* a goroutine that was started and did nothing yet
NewTask ==
    [pc |-> "start", tunnel |-> "none", hostAnswer |-> NoAnswer,
     expectedAnswer |-> NoAnswer, addresses |-> <<>>, merr |-> <<>>,
     sent |-> FALSE, report |-> Pair(FALSE, <<>>)]

\* results[i] = make(chan *pairs.Pair[bool, error], 1): a send goes through
\* without a receiver while the buffer of the channel ch has room
CanSend(ch) == Len(ch) < 1

\* the goroutine t after it sent p on its channel: the deferred
\* portforward.Stop() is still to run if the tunnel was started
SendResult(t, p) ==
    [t EXCEPT !.report = p, !.sent = TRUE,
              !.pc = IF t.tunnel = "open" THEN "sent" ELSE "ended"]

\* mutant: the tunnel is stopped only after a successful check
PortforwardStopOnSuccess(t) ==
    [t EXCEPT !.pc = "ended",
              !.tunnel = IF t.report.X THEN "released" ELSE t.tunnel]

\* defer portforward.Stop(), run when the goroutine returns
PortforwardStop(t) == [t EXCEPT !.pc = "ended", !.tunnel = "released"]

\* mutant: an error of an endpoint is collected, the check stays active
ReceiveKeepActive(c, p) ==
    IF p.Y # <<>>
    THEN [c EXCEPT !.merr = c.merr \o p.Y, !.next = c.next + 1]
    ELSE [c EXCEPT !.active = c.active /\ p.X, !.next = c.next + 1]

\* the body of the loop over the channels, for the pair p received
Receive(c, p) ==
    IF p.Y # <<>>
    THEN [c EXCEPT !.active = FALSE, !.merr = c.merr \o p.Y, !.next = c.next + 1]
    ELSE [c EXCEPT !.active = c.active /\ p.X, !.next = c.next + 1]

\* mutant: the loop over the channels ends with the first error
LoopDoneOnError(c) == c.next > Len(c.endpoints) \/ c.merr # <<>>

\* the loop over the channels is through
LoopDone(c) == c.next > Len(c.endpoints)

\* Service kube-system/kube-dns: its ports
ServicePorts ==
    {<<[Name |-> "dns", Protocol |-> "UDP", Port |-> 53],
       [Name |-> "dns-tcp", Protocol |-> "TCP", Port |-> 53]>>,
     <<[Name |-> "dns", Protocol |-> "UDP", Port |-> 53]>>}

\* Endpoints kube-system/kube-dns: its subsets; every address has a TargetRef
EndpointSubsets ==
    {<<>>,
     <<[Ports |-> <<[Name |-> "dns-tcp", Port |-> 53]>>, Addresses |-> <<"Pod">>]>>,
     <<[Ports |-> <<[Name |-> "dns-tcp", Port |-> 53]>>, Addresses |-> <<"Pod", "Node", "Pod">>]>>,
     <<[Ports |-> <<[Name |-> "dns-tcp", Port |-> 53]>>, Addresses |-> <<"Node">>]>>,
     <<[Ports |-> <<[Name |-> "dns", Port |-> 53]>>, Addresses |-> <<"Pod">>],
       [Ports |-> <<[Name |-> "dns", Port |-> 53], [Name |-> "dns-tcp", Port |-> 65536]>>,
        Addresses |-> <<"Pod">>]>>}

\* what the API server holds and whether it answers
Clusters ==
    {[getService |-> "error", ports |-> <<>>, getEndpoints |-> "none", subsets |-> <<>>]}
    \cup {[getService |-> "none", ports |-> p, getEndpoints |-> "error", subsets |-> <<>>] :
             p \in ServicePorts}
    \cup {[getService |-> "none", ports |-> p, getEndpoints |-> "none", subsets |-> s] :
             p \in ServicePorts, s \in EndpointSubsets}

RECURSIVE PortName(_)
\* the name of the first port tcp/53 of the service, "" if it has none
PortName(ports) ==
    IF ports = <<>> THEN ""
    ELSE IF Head(ports).Protocol = "TCP" /\ Head(ports).Port = 53 THEN Head(ports).Name
    ELSE PortName(Tail(ports))

RECURSIVE SubsetPort(_, _)
\* uint16 of the first port of the subset with the name portName, 0 if none
SubsetPort(ports, portName) ==
    IF ports = <<>> THEN 0
    ELSE IF Head(ports).Name = portName THEN Head(ports).Port % 65536
    ELSE SubsetPort(Tail(ports), portName)

\* the endpoints of the addresses of a subset that refer to a pod
PodEndpoints(addresses) ==
    [i \in 1..Len(SelectSeq(addresses, LAMBDA k : k = "Pod")) |-> [InCluster |-> TRUE]]

RECURSIVE SubsetsLoop(_, _, _)
SubsetsLoop(subsets, portName, endpoints) ==
    IF subsets = <<>> THEN endpoints
    ELSE IF SubsetPort(Head(subsets).Ports, portName) = 0
         THEN SubsetsLoop(Tail(subsets), portName, endpoints)
         ELSE SubsetsLoop(Tail(subsets), portName,
                          endpoints \o PodEndpoints(Head(subsets).Addresses))

\* mutant: a service without port tcp/53 is no error
discoverEndpointsAnyPort(cluster) ==
    IF cluster.getService = "error"
    THEN [endpoints |-> <<>>, err |-> "get service failed"]
    ELSE IF cluster.getEndpoints = "error"
    THEN [endpoints |-> <<>>, err |-> "get endpoints failed"]
    ELSE [endpoints |-> SubsetsLoop(cluster.subsets, PortName(cluster.ports), <<>>),
          err |-> "none"]

\* discoverEndpoints: [endpoints, err]
discoverEndpoints(cluster) ==
    IF cluster.getService = "error"
    THEN [endpoints |-> <<>>, err |-> "get service failed"]
    ELSE IF PortName(cluster.ports) = ""
    THEN [endpoints |-> <<>>, err |-> "service kube-dns does not have port tcp/53"]
    ELSE IF cluster.getEndpoints = "error"
    THEN [endpoints |-> <<>>, err |-> "get endpoints failed"]
    ELSE [endpoints |-> SubsetsLoop(cluster.subsets, PortName(cluster.ports), <<>>),
          err |-> "none"]

\* the endpoints a resolver can be configured with
ConfiguredEndpoints ==
    UNION {[1..n -> {[InCluster |-> TRUE], [InCluster |-> FALSE]}] : n \in 0..MaxEndpoints}

\* every goroutine of the call returned
AllEnded == \A i \in DOMAIN tasks : tasks[i].pc = "ended"

\* CheckRecord up to the start of the goroutines, on a resolver made by
\* NewResolver(client, restConfig, inCluster, endpoints...); two calls share
\* no state, a behaviour follows one call
CheckRecordCall(inCluster, endpoints, expectedResult, cluster) ==
    /\ check.pc = "idle"
    /\ LET d == IF Len(endpoints) = 0 THEN discoverEndpoints(cluster)
                ELSE [endpoints |-> endpoints, err |-> "none"]
           c == [NoCheck EXCEPT !.inCluster = inCluster,
                                !.expectedResult = expectedResult,
                                !.configured = endpoints,
                                !.cluster = IF Len(endpoints) = 0 THEN cluster ELSE @]
       IN IF d.err # "none"
          THEN /\ check' = [c EXCEPT !.pc = "returned", !.active = FALSE,
                                     !.merr = <<<<0, d.err>>>>]
               /\ tasks' = <<>>
               /\ results' = <<>>
          ELSE /\ check' = [c EXCEPT !.pc = "collect", !.endpoints = d.endpoints,
                                     !.started = TRUE]
               /\ tasks' = [i \in 1..Len(d.endpoints) |-> NewTask]
               /\ results' = [i \in 1..Len(d.endpoints) |-> <<>>]
    /\ UNCHANGED <<rsVars, ctlVars, depVars>>

\* the goroutine returns without a result when portforward.Start() fails
TaskStartSilent(i, startFails) ==
    /\ i \in DOMAIN tasks
    /\ tasks[i].pc = "start"
    /\ IF check.endpoints[i].InCluster /\ ~check.inCluster
       THEN IF startFails
            THEN LET p == Pair(FALSE, <<<<i, "portforward failed">>>>) IN
                 /\ tasks' = [tasks EXCEPT ![i] =
                                 [@ EXCEPT !.tunnel = "failed", !.report = p,
                                           !.pc = "ended"]]
                 /\ UNCHANGED results
            ELSE /\ tasks' = [tasks EXCEPT ![i] =
                                 [@ EXCEPT !.tunnel = "open", !.pc = "lookupHost"]]
                 /\ UNCHANGED results
       ELSE /\ ~startFails
            /\ tasks' = [tasks EXCEPT ![i] = [@ EXCEPT !.pc = "lookupHost"]]
            /\ UNCHANGED results
    /\ UNCHANGED <<check, rsVars, ctlVars, depVars>>

\* goroutine i up to its first lookup; portforward.Start() fails or not
TaskStart(i, startFails) ==
    /\ i \in DOMAIN tasks
    /\ tasks[i].pc = "start"
    /\ IF check.endpoints[i].InCluster /\ ~check.inCluster
       THEN IF startFails
            THEN LET p == Pair(FALSE, <<<<i, "portforward failed">>>>) IN
                 /\ CanSend(results[i])
                 /\ tasks' = [tasks EXCEPT ![i] =
                                 [@ EXCEPT !.tunnel = "failed", !.report = p,
                                           !.sent = TRUE, !.pc = "ended"]]
                 /\ results' = [results EXCEPT ![i] = Append(@, p)]
            ELSE /\ tasks' = [tasks EXCEPT ![i] =
                                 [@ EXCEPT !.tunnel = "open", !.pc = "lookupHost"]]
                 /\ UNCHANGED results
       ELSE /\ ~startFails
            /\ tasks' = [tasks EXCEPT ![i] = [@ EXCEPT !.pc = "lookupHost"]]
            /\ UNCHANGED results
    /\ UNCHANGED <<check, rsVars, ctlVars, depVars>>

\* goroutine i: dnsutil.Lookup(host, ...) is answered; with an empty
\* expectedResult the result is sent
TaskLookupHost(i, answer) ==
    /\ i \in DOMAIN tasks
    /\ tasks[i].pc = "lookupHost"
    /\ LET l == Lookup(answer)
           t == [tasks[i] EXCEPT !.hostAnswer = answer, !.addresses = l.addresses,
                                 !.merr = MultierrorAppend(@, i, l.err)]
           p == Verdict(check.expectedResult, t.merr, t.addresses, <<>>)
       IN IF check.expectedResult = ""
          THEN /\ CanSend(results[i])
               /\ tasks' = [tasks EXCEPT ![i] = SendResult(t, p)]
               /\ results' = [results EXCEPT ![i] = Append(@, p)]
          ELSE /\ tasks' = [tasks EXCEPT ![i] = [t EXCEPT !.pc = "lookupExpected"]]
               /\ UNCHANGED results
    /\ UNCHANGED <<check, rsVars, ctlVars, depVars>>

\* goroutine i: dnsutil.Lookup(expectedResult, ...) is answered, the result is sent
TaskLookupExpected(i, answer) ==
    /\ i \in DOMAIN tasks
    /\ tasks[i].pc = "lookupExpected"
    /\ LET l == Lookup(answer)
           t == [tasks[i] EXCEPT !.expectedAnswer = answer,
                                 !.merr = MultierrorAppend(@, i, l.err)]
           p == Verdict(check.expectedResult, t.merr, t.addresses, l.addresses)
       IN /\ CanSend(results[i])
          /\ tasks' = [tasks EXCEPT ![i] = SendResult(t, p)]
          /\ results' = [results EXCEPT ![i] = Append(@, p)]
    /\ UNCHANGED <<check, rsVars, ctlVars, depVars>>

\* goroutine i returns after it sent its result: the deferred Stop runs
TaskStop(i) ==
    /\ i \in DOMAIN tasks
    /\ tasks[i].pc = "sent"
    /\ tasks' = [tasks EXCEPT ![i] = PortforwardStop(@)]
    /\ UNCHANGED <<check, results, rsVars, ctlVars, depVars>>

\* CheckRecord receives from the next channel
CheckRecordReceive ==
    /\ check.pc = "collect"
    /\ ~LoopDone(check)
    /\ results[check.next] # <<>>
    /\ check' = Receive(check, Head(results[check.next]))
    /\ results' = [results EXCEPT ![check.next] = Tail(@)]
    /\ UNCHANGED <<tasks, rsVars, ctlVars, depVars>>

\* CheckRecord returns active, merr
CheckRecordReturn ==
    /\ check.pc = "collect"
    /\ LoopDone(check)
    /\ check' = [check EXCEPT !.pc = "returned"]
    /\ UNCHANGED <<tasks, results, rsVars, ctlVars, depVars>>

\* the caller cancels ctx while the call runs; nothing in CheckRecord or
\* in Lookup (which uses context.Background()) reads it after the discovery
CancelContext ==
    /\ check.pc = "collect"
    /\ ~check.cancelled
    /\ check' = [check EXCEPT !.cancelled = TRUE]
    /\ UNCHANGED <<tasks, results, rsVars, ctlVars, depVars>>

NextResolver ==
    \/ \E inCluster \in BOOLEAN, endpoints \in ConfiguredEndpoints,
          expectedResult \in {"", "t.io"}, cluster \in Clusters :
          CheckRecordCall(inCluster, endpoints, expectedResult, cluster)
    \/ \E i \in 1..MaxEndpoints, startFails \in BOOLEAN : TaskStart(i, startFails)
    \/ \E i \in 1..MaxEndpoints, answer \in Answers : TaskLookupHost(i, answer)
    \/ \E i \in 1..MaxEndpoints, answer \in Answers : TaskLookupExpected(i, answer)
    \/ \E i \in 1..MaxEndpoints : TaskStop(i)
    \/ CheckRecordReceive
    \/ CheckRecordReturn
    \/ CancelContext

SpecResolver == InitController /\ [][NextResolver]_vars

\* one goroutine step of the task i
TaskStep(i) ==
    \/ \E startFails \in BOOLEAN : TaskStart(i, startFails)
    \/ \E answer \in Answers : TaskLookupHost(i, answer)
    \/ \E answer \in Answers : TaskLookupExpected(i, answer)
    \/ TaskStop(i)

\* every portforward.Start() and every dnsutil.Lookup returns, and the Go
\* scheduler runs every goroutine that can run
FairResolver ==
    /\ \A i \in 1..MaxEndpoints : WF_vars(TaskStep(i))
    /\ WF_vars(CheckRecordReceive)
    /\ WF_vars(CheckRecordReturn)

\* a CheckRecord call whose lookups and tunnel starts all return
SpecResolverLive == InitController /\ [][NextResolver]_vars /\ FairResolver

-----------------------------------------------------------------------------
(* internal/controllers/common.go: manageDependents, called by the          *)
(* reconcilers of Service, Ingress and Gateway with the hosts of the object *)
(* (the keys of a map: no host comes twice)                                 *)

\* the UIDs that the API server hands out
MaxUid == 2

\* the hosts of an owner and the values of its annotation masquerade-to
\* (NoName: no annotation)
OwnerHosts == {<<>>, <<NameA>>, <<NameB>>, <<NameB, NameA>>}
OwnerTargets == {NoName, NameT, Ip4}

RECURSIVE FindDependent(_, _, _, _)
\* lines 66-72: the index from k on of the first listed rule with the
\* given Spec.From and Spec.To, 0 if there is none
FindDependent(list, k, host, target) ==
    IF k > Len(list) THEN 0
    ELSE IF list[k].From = host /\ list[k].To = target THEN k
    ELSE FindDependent(list, k + 1, host, target)

\* c.Delete with foreground propagation: the object gets a DeletionTimestamp
RequestDeletion(items, uid) ==
    [i \in 1..Len(items) |->
        IF items[i].UID = uid THEN [items[i] EXCEPT !.deleting = TRUE] ELSE items[i]]

\* what a manageDependents call holds: the API server's objects, the UIDs
\* of masqueradingRules, numDependents, the next UID and the error
ManageStart(list, uid) ==
    [items |-> list, kept |-> {}, created |-> {}, deleted |-> {},
     numDependents |-> Len(list), next |-> uid, err |-> "none"]

RECURSIVE EnsureLoop(_, _, _, _, _, _)
\* lines 64-82: for every host the listed rule is kept or a rule is created;
\* fault "create": the first c.Create fails
EnsureLoop(list, hs, k, target, st, fault) ==
    IF k > Len(hs) THEN st
    ELSE LET i == FindDependent(list, 1, hs[k], target) IN
         IF i # 0
         THEN EnsureLoop(list, hs, k + 1, target,
                         [st EXCEPT !.kept = @ \cup {list[i].UID}], fault)
         ELSE IF fault = "create"
         THEN [st EXCEPT !.err = "failed to create masquerading rule"]
         ELSE EnsureLoop(list, hs, k + 1, target,
                         [st EXCEPT !.items = Append(@, [UID |-> st.next, From |-> hs[k],
                                                         To |-> target, deleting |-> FALSE]),
                                    !.kept = @ \cup {st.next},
                                    !.created = @ \cup {st.next},
                                    !.next = @ + 1,
                                    !.numDependents = @ + 1], fault)

RECURSIVE DeleteLoop(_, _, _, _)
\* lines 85-101 (and 103-110 with nothing kept): every listed rule that is
\* not kept is deleted unless it is being deleted already;
\* fault "delete": the first c.Delete fails
DeleteLoop(list, k, st, fault) ==
    IF k > Len(list) \/ st.err # "none" THEN st
    ELSE IF list[k].UID \in st.kept THEN DeleteLoop(list, k + 1, st, fault)
    ELSE IF list[k].deleting
    THEN DeleteLoop(list, k + 1, [st EXCEPT !.numDependents = @ - 1], fault)
    ELSE IF fault = "delete"
    THEN [st EXCEPT !.err = "failed to delete masquerading rule"]
    ELSE DeleteLoop(list, k + 1,
                    [st EXCEPT !.items = RequestDeletion(@, list[k].UID),
                               !.deleted = @ \cup {list[k].UID},
                               !.numDependents = @ - 1], fault)

\* manageDependents(ctx, c, obj, hosts) for the owner o and the rules list
\* that c.List returns: [err, o, items, created, deleted, next]
manageDependents(o, list, uid, fault) ==
    LET st0 == ManageStart(list, uid) IN
    IF fault = "list"
    THEN [st0 EXCEPT !.err = "failed to list dependent masquerading rules"] @@ [o |-> o]
    ELSE LET withFin == IF ~o.deleting /\ o.to # NoName
                        THEN [o EXCEPT !.finalizer = TRUE] ELSE o
             st1 == IF ~o.deleting /\ o.to # NoName
                    THEN EnsureLoop(list, o.hosts, 1, o.to, st0, fault)
                    ELSE st0
             st2 == DeleteLoop(list, 1, st1, fault)
         IN  IF st2.err # "none" THEN [st2 EXCEPT !.next = st1.next] @@ [o |-> withFin]
             ELSE IF st2.numDependents = 0
             THEN st2 @@ [o |-> [withFin EXCEPT !.finalizer = FALSE]]
             ELSE st2 @@ [o |-> withFin]

\* a reconciler of the owner calls manageDependents; the API server removes
\* an owner that is being deleted when its finalizer is cleared
ManageDependents(fault) ==
    /\ obj.phase = "present"
    /\ LET m == manageDependents(obj, dependents, nextUid, fault) IN
       /\ m.next <= MaxUid + 1
       /\ obj' = IF m.o.deleting /\ ~m.o.finalizer THEN [m.o EXCEPT !.phase = "gone"]
                  ELSE m.o
       /\ dependents' = m.items
       /\ nextUid' = m.next
       /\ managed' = [seq |-> 1 - managed.seq, err |-> m.err, kept |-> m.kept,
                       created |-> m.created, deleted |-> m.deleted, fresh |-> TRUE]
    /\ UNCHANGED <<rsVars, ctlVars, resolverVars>>

\* the owner or its dependents are not as the last call left them
Touched == [managed EXCEPT !.fresh = FALSE]

\* a user changes the annotation and the hosts of the owner
SetOwner(target, hs) ==
    /\ obj.phase = "present"
    /\ ~obj.deleting
    /\ <<target, hs>> # <<obj.to, obj.hosts>>
    /\ obj' = [obj EXCEPT !.to = target, !.hosts = hs]
    /\ managed' = Touched
    /\ UNCHANGED <<dependents, nextUid>>
    /\ UNCHANGED <<rsVars, ctlVars, resolverVars>>

\* a user deletes the owner
DeleteOwner ==
    /\ obj.phase = "present"
    /\ ~obj.deleting
    /\ obj' = IF obj.finalizer THEN [obj EXCEPT !.deleting = TRUE]
               ELSE [obj EXCEPT !.phase = "gone"]
    /\ managed' = Touched
    /\ UNCHANGED <<dependents, nextUid>>
    /\ UNCHANGED <<rsVars, ctlVars, resolverVars>>

\* a user deletes the i-th dependent
DeleteDependent(i) ==
    /\ i \in DOMAIN dependents
    /\ ~dependents[i].deleting
    /\ dependents' = RequestDeletion(dependents, dependents[i].UID)
    /\ managed' = Touched
    /\ UNCHANGED <<obj, nextUid>>
    /\ UNCHANGED <<rsVars, ctlVars, resolverVars>>

\* the finalizers of the i-th dependent, which is being deleted, are
\* cleared and the API server removes it
DependentGone(i) ==
    /\ i \in DOMAIN dependents
    /\ dependents[i].deleting
    /\ dependents' = [k \in 1..(Len(dependents) - 1) |->
                         IF k < i THEN dependents[k] ELSE dependents[k + 1]]
    /\ managed' = Touched
    /\ UNCHANGED <<obj, nextUid>>
    /\ UNCHANGED <<rsVars, ctlVars, resolverVars>>

NextDependents ==
    \/ \E fault \in {"none", "list", "create", "delete"} : ManageDependents(fault)
    \/ \E target \in OwnerTargets, hs \in OwnerHosts : SetOwner(target, hs)
    \/ DeleteOwner
    \/ \E i \in 1..MaxUid : DeleteDependent(i)
    \/ \E i \in 1..MaxUid : DependentGone(i)

\* an owner, its dependents and the calls of manageDependents for it
SpecDependents == InitController /\ [][NextDependents]_vars

-----------------------------------------------------------------------------

Next == NextRules \/ NextCodec

Spec == Init /\ [][Next]_vars

-----------------------------------------------------------------------------
(* Properties of the rule set, checked under SpecRules *)

\* no two rules of different owners match each other's From
ClashFree(byOwner) ==
    \A o1, o2 \in DOMAIN byOwner :
        o1 # o2 => /\ ~Matches(byOwner[o1], byOwner[o2].From)
                   /\ ~Matches(byOwner[o2], byOwner[o1].From)

\* the owners other than r.Owner whose rule clashes with r
ClashingOwners(byOwner, r) ==
    {o \in DOMAIN byOwner :
        /\ o # r.Owner
        /\ (Matches(byOwner[o], r.From) \/ Matches(r, byOwner[o].From))}

\* C1: after any sequence of AddRule and RemoveRule calls from the empty set,
\* no two rules with different owners have Froms that match each other under
\* the wildcard relation.
C1_ClashFree == ClashFree(rulesByOwner)

\* C2: AddRule of a valid rule r fails with a conflict error if and only if
\* the set holds a rule of another owner whose From matches r.From or is
\* matched by r.From.
C2_ConflictIffClash ==
    [][(op'.name = "AddRule" /\ AddRuleCheck(op'.rule) = "none")
         => ((res'.err = "conflict") <=> (ClashingOwners(rulesByOwner, op'.rule) # {}))]_vars

\* C3: when AddRule returns an error (conflict or validation failure) the
\* rule set is what it was before the call; an owner that had a rule keeps it.
C3_ErrorLeavesSetUnchanged ==
    [][(op'.name = "AddRule" /\ res'.err # "none")
         => (rulesByOwner' = rulesByOwner /\ rulesByFrom' = rulesByFrom)]_vars

\* a conflicting AddRule of an owner that holds a rule with another From has
\* been refused, and the owner's old rule is there
C3_Witness ==
    /\ op.name = "AddRule"
    /\ res.err = "conflict"
    /\ op.rule.Owner \in DOMAIN rulesByOwner
    /\ rulesByOwner[op.rule.Owner].From # op.rule.From
    /\ rulesByFrom[rulesByOwner[op.rule.Owner].From] = op.rule.Owner

C5_RemoveRuleResult ==
    [][(op'.name = "RemoveRule")
         => LET owner == op'.rule.Owner IN
            IF owner \in DOMAIN rulesByOwner
            THEN /\ res'.err = "none"
                 /\ rulesByOwner' = MapDelete(rulesByOwner, owner)
                 /\ rulesByFrom' = MapDelete(rulesByFrom, rulesByOwner[owner].From)
            ELSE /\ res'.err = "none"
                 /\ rulesByOwner' = rulesByOwner
                 /\ rulesByFrom' = rulesByFrom]_vars

\* the host names looked up in the set
HostNames == {NameA, NameB, WildFoo, NameT}

\* C6: in every rule set reachable through AddRule and RemoveRule at most one
\* rule matches any given host name.
C6_AtMostOneMatch ==
    \A h \in HostNames :
        Cardinality({o \in DOMAIN rulesByOwner : Matches(rulesByOwner[o], h)}) <= 1

-----------------------------------------------------------------------------
(* Properties of the codec, checked under SpecCodec and SpecParse *)

\* C7: ParseRewriteRuleSet of what String wrote for a set built by AddRule
\* succeeds and yields the same set, and String of the parsed set is the
\* text that was parsed.
C7_RoundTrip ==
    [][/\ (op.name = "String" /\ op'.name = "Parse")
            => (res'.err = "none" /\ rulesByOwner' = rulesByOwner /\ rulesByFrom' = rulesByFrom)
       /\ (op.name = "Parse" /\ res.err = "none" /\ op'.name = "String")
            => text' = text]_vars

\* a text with an IP rule, a name rule and a wildcard rule has been parsed back
C7_Witness ==
    /\ op.name = "Parse"
    /\ res.err = "none"
    /\ text # <<>>
    /\ \E o \in DOMAIN rulesByOwner : IsIpAddress(rulesByOwner[o].To)
    /\ \E o \in DOMAIN rulesByOwner : IsWildcardDnsName(rulesByOwner[o].From)
    /\ \E o \in DOMAIN rulesByOwner :
          ~IsIpAddress(rulesByOwner[o].To) /\ ~IsWildcardDnsName(rulesByOwner[o].From)

\* the lines of the text that are the owner line of o
OwnerLinesOf(o) ==
    {i \in 1..Len(text) : IsOwnerLine(text[i]) /\ CapturedOwner(text[i]) = o}

PosOf(o) == CHOOSE i \in OwnerLinesOf(o) : TRUE

IpOwners == {o \in DOMAIN rulesByOwner : IsIpAddress(rulesByOwner[o].To)}

NameOwners == (DOMAIN rulesByOwner) \ IpOwners

\* C8: String renders every rule exactly once; the rules with an IP target
\* come first, inside a single hosts block, in ascending owner order; the
\* rules with a name target follow in ascending owner order; the hosts block
\* is there if and only if there is a rule with an IP target. These fix the
\* text, so it depends on the contents of the set alone.
C8_Canonical ==
    (op.name = "String") =>
        /\ \A o \in DOMAIN rulesByOwner :
              /\ Cardinality(OwnerLinesOf(o)) = 1
              /\ PosOf(o) + 3 <= Len(text)
              /\ IsFromLine(text[PosOf(o) + 1])
              /\ CapturedName(text[PosOf(o) + 1]) = rulesByOwner[o].From
              /\ IsToLine(text[PosOf(o) + 2])
              /\ CapturedName(text[PosOf(o) + 2]) = rulesByOwner[o].To
              /\ IF o \in IpOwners
                 THEN text[PosOf(o) + 3].toks = <<rulesByOwner[o].To, rulesByOwner[o].From>>
                 ELSE IsRewriteLine(text[PosOf(o) + 3])
                      /\ text[PosOf(o) + 3].toks[5] = rulesByOwner[o].To
        /\ Cardinality({i \in 1..Len(text) : IsOwnerLine(text[i])})
              = Cardinality(DOMAIN rulesByOwner)
        /\ Cardinality({i \in 1..Len(text) : text[i] = HostsOpen})
              = (IF IpOwners # {} THEN 1 ELSE 0)
        /\ Cardinality({i \in 1..Len(text) : text[i] = HostsClose})
              = (IF IpOwners # {} THEN 1 ELSE 0)
        /\ Len(text) = 4 * Cardinality(DOMAIN rulesByOwner) + (IF IpOwners # {} THEN 3 ELSE 0)
        /\ (IpOwners # {} => text[1] = HostsOpen)
        /\ \A o \in IpOwners : \A c \in 1..Len(text) :
              text[c] = HostsClose => PosOf(o) < c
        /\ \A o \in NameOwners : \A c \in 1..Len(text) :
              text[c] = HostsClose => c < PosOf(o)
        /\ \A o1, o2 \in IpOwners : OwnerLess(o1, o2) => PosOf(o1) < PosOf(o2)
        /\ \A o1, o2 \in NameOwners : OwnerLess(o1, o2) => PosOf(o1) < PosOf(o2)

\* String has written a set in which a rule with a name target belongs to a
\* smaller owner than a rule with an IP target, and two rules share a group
C8_Witness ==
    /\ op.name = "String"
    /\ \E o1 \in NameOwners, o2 \in IpOwners : OwnerLess(o1, o2)
    /\ \E o1, o2 \in NameOwners : o1 # o2
    /\ Len(text) = 15

\* C9: ParseRewriteRuleSet never returns a set that violates the invariants
\* of the rule set: a text with clashing rules of different owners, an invalid
\* name or a wildcard From with an IP To is refused.
C9_ParsedSetIsClean ==
    (op.name = "Parse" /\ res.err = "none") =>
        /\ ClashFree(rulesByOwner)
        /\ \A o \in DOMAIN rulesByOwner : AddRuleCheck(rulesByOwner[o]) = "none"

AddRuleErrors == {"invalid source", "wildcard with ip", "invalid target", "conflict"}

RECURSIVE ShapeScan(_, _, _, _)
\* the first line of t, from line i on, that does not have the shape expected
\* at its position, read line by line; want is what is expected at line i
ShapeScan(t, i, want, hosts) ==
    IF i > Len(t)
    THEN (IF want = "unit" THEN [err |-> "none", line |-> 0]
          ELSE [err |-> "premature", line |-> 0])
    ELSE IF want = "unit"
    THEN (IF t[i] = HostsOpen /\ ~hosts THEN ShapeScan(t, i + 1, "unit", TRUE)
          ELSE IF t[i] = Fallthrough /\ i < Len(t) /\ t[i + 1] = HostsClose
               THEN ShapeScan(t, i + 2, "unit", FALSE)
          ELSE IF IsOwnerLine(t[i]) THEN ShapeScan(t, i + 1, "from", hosts)
          ELSE [err |-> "parse", line |-> i])
    ELSE IF want = "from"
    THEN (IF IsFromLine(t[i]) THEN ShapeScan(t, i + 1, "to", hosts)
          ELSE [err |-> "parse", line |-> i])
    ELSE IF want = "to"
    THEN (IF IsToLine(t[i]) THEN ShapeScan(t, i + 1, "rule", hosts)
          ELSE [err |-> "parse", line |-> i])
    ELSE (IF (hosts /\ IsHostsRuleLine(t[i])) \/ (~hosts /\ IsRewriteLine(t[i]))
          THEN ShapeScan(t, i + 1, "unit", hosts)
          ELSE [err |-> "parse", line |-> i])

\* the lines before line k are a text that parses
PrefixParses(k) == ParseRewriteRuleSet(SubSeq(text, 1, k - 1)).err = "none"

\* C10: a parse error names the first offending line (counted from 1): an
\* owner line that is not followed by a from line gives the number of the line
\* behind the owner line; in general the number is that of the first line that
\* does not have the shape expected at its position; a text that ends behind
\* an owner, from or to line gives the premature-end error.
C10_ParseErrorPosition ==
    (op.name = "Parse") =>
        /\ (res.err \notin AddRuleErrors => res = ShapeScan(text, 1, "unit", FALSE))
        /\ \A k \in 1..(Len(text) - 1) :
              (IsOwnerLine(text[k]) /\ ~IsFromLine(text[k + 1]) /\ PrefixParses(k))
                  => res = [err |-> "parse", line |-> k + 1]
        /\ \A k \in 1..Len(text) :
              (/\ Len(text) - k < 3
               /\ PrefixParses(k)
               /\ IsOwnerLine(text[k])
               /\ (k + 1 <= Len(text) => IsFromLine(text[k + 1]))
               /\ (k + 2 <= Len(text) => IsToLine(text[k + 2])))
                  => res = [err |-> "premature", line |-> 0]

\* a text whose second rule has lost its from line has been parsed
C10_Witness ==
    /\ op.name = "Parse"
    /\ res.err = "parse"
    /\ res.line > 4
    /\ IsOwnerLine(text[res.line - 1])
    /\ IsToLine(text[res.line])

-----------------------------------------------------------------------------
(* C11..C20: admission and the Reconcile calls *)

\* a host name: labels of letters, digits and inner hyphens joined by dots
IsHostName(s) == Len(s) >= 1 /\ \A i \in 1..Len(s) : s[i] \in LdhLabels

\* a host name whose first label may be the wildcard "*"
IsSourceName(s) ==
    \/ IsHostName(s)
    \/ Len(s) >= 2 /\ s[1] = "*" /\ IsHostName(Tail(s))

\* what the specification asks of a rule
WellFormedRule(r) ==
    /\ IsSourceName(r.From)
    /\ IsIpAddress(r.To) \/ IsHostName(r.To)
    /\ ~(IsIpAddress(r.To) /\ r.From[1] = "*")

ValidationErrors == {"invalid source", "wildcard with ip", "invalid target"}

\* C11: a rule passes the validation exactly when its from is a host name
\* (a single leading wildcard label allowed), its to is an IP literal or a host
\* name without wildcard, and it is not a wildcard from with an IP to; every
\* rule that a rule set stores has passed it.
C11_WellFormedRules ==
    /\ op.name = "AddRule" => ((res.err \notin ValidationErrors) <=> WellFormedRule(op.rule))
    /\ \A o \in DOMAIN rulesByOwner : WellFormedRule(rulesByOwner[o])

\* a wildcard rule to an IP address is refused by a set that holds rules
C11_Witness ==
    /\ op.name = "AddRule"
    /\ res.err = "wildcard with ip"
    /\ DOMAIN rulesByOwner # {}

\* C12: the webhook refuses a create or update exactly when the construction
\* of the candidate rule in a Reconcile call would fail, so no call on an
\* admitted object ends with a validation error; a delete is always admitted.
C12_AdmissionAsConstructor ==
    /\ last.step \in {"create", "update"} =>
          /\ (last.err = "none") <=> (NewRewriteRule(OwnerOf(last.e), last.from, last.to).err = "none")
          /\ (last.err = "none") <=> (validate(last.from, last.to) = "none")
    /\ last.step = "delete" => last.err = "none"
    /\ last.step = "reconcile" => last.err \notin ValidationErrors
    /\ \A e \in Entities :
          entities[e].phase = "present" =>
             NewRewriteRule(OwnerOf(e), entities[e].from, entities[e].to).err = "none"

\* an object with an IP address target is Ready and a create has been refused
C12_Witness ==
    /\ last.step = "create"
    /\ last.err # "none"
    /\ \E e \in Entities : entities[e].to = Ip4 /\ entities[e].state = "Ready"

\* the rules by owner that the ConfigMap cm holds
RulesIn(cm) ==
    IF cm.present THEN ParseRewriteRuleSet(cm.data).rs.rulesByOwner ELSE EmptyMap

\* the rule of the owner o in the ConfigMap cm, NoRule for none
RuleIn(cm, o) == IF o \in DOMAIN RulesIn(cm) THEN RulesIn(cm)[o] ELSE NoRule

\* C13: every ConfigMap that is persisted is the one before it with nothing
\* but the entry of the writing call's owner added, replaced or removed, also
\* when the calls of several objects race for it.
C13_NoLostUpdate ==
    [][configMap' # configMap =>
          /\ last'.step = "reconcile"
          /\ last'.wrote # "none"
          /\ \A f \in Entities \ {last'.e} :
                RuleIn(configMap', OwnerOf(f)) = RuleIn(configMap, OwnerOf(f))
          /\ RuleIn(configMap', OwnerOf(last'.e)) \in
                {NoRule, [Owner |-> OwnerOf(last'.e), From |-> last'.from, To |-> last'.to]}]_vars

\* a call has written its rule next to the rule of another object whose call
\* is still running on the version before
C13_Witness ==
    /\ last.step = "reconcile"
    /\ last.wrote = "update"
    /\ \A f \in Entities : RuleIn(configMap, OwnerOf(f)) # NoRule
    /\ \E f \in Entities \ {last.e} : pass[f].pc = "loaded" /\ pass[f].cmStale

\* the errors of Reconcile for a ConfigMap write that the API server refuses
WriteConflictErrors == {"error updating config map", "error creating config map"}

\* C14: a call whose write of the ConfigMap is refused, because another call
\* has written or created it first, does not set the state of its object to
\* Error.
C14_WriteConflictIsTransient ==
    (last.step = "reconcile" /\ last.err \in WriteConflictErrors) =>
        /\ last.state # "Error"
        /\ entities[last.e].state # "Error"

\* the step ends the Reconcile call of the object e
EndsCallOf(e) == pass[e].pc = "loaded" /\ pass'[e].pc = "idle"

\* C15: a call clears the finalizer only when the object it read is marked for
\* deletion and has no foreign finalizer and the ConfigMap it read is absent
\* or holds no rule of the object's owner; once an object is removed, the
\* ConfigMap never holds a rule of its owner.
C15_NoOrphanedRule ==
    [][/\ \A e \in Entities :
             (EndsCallOf(e) /\ last'.cleared) =>
                 /\ pass[e].ent.deleting
                 /\ ~pass[e].ent.foreign
                 /\ RuleIn(pass[e].cm, OwnerOf(e)) = NoRule
       /\ \A e \in Entities :
             entities'[e].phase = "gone" => RuleIn(configMap', OwnerOf(e)) = NoRule]_vars

\* a call has cleared the finalizer of an object, the object is removed and
\* the ConfigMap still holds the rule of another object
C15_Witness ==
    /\ last.step = "reconcile"
    /\ last.cleared
    /\ entities[last.e].phase = "gone"
    /\ \E f \in Entities \ {last.e} : RuleIn(configMap, OwnerOf(f)) # NoRule

\* C16: a call writes the ConfigMap only when the delay since the last write
\* is over and otherwise defers without writing, on the create/update path and
\* on the deletion path; every write, the creation included, sets the
\* last-updated-at annotation to the time of the write, so that two writes in
\* a row are at least the delay apart.
C16_Debounce ==
    [][\A e \in Entities :
          EndsCallOf(e) =>
             /\ last'.wrote # "none" =>
                   /\ configMap'.lastUpdatedAt = clock
                   /\ configMap.lastUpdatedAt >= 0 =>
                         clock >= configMap.lastUpdatedAt + CorednsConfigMapUpdateDelay
             /\ last'.deferred =>
                   /\ configMap' = configMap
                   /\ last'.wrote = "none"]_vars

\* the candidate rule of the object that the call of e has read
CandidateOf(e) == [Owner |-> OwnerOf(e), From |-> pass[e].ent.from, To |-> pass[e].ent.to]

\* C17: the state of an object becomes Ready only at the end of a call that
\* found its rule, with the declared from and to, in the ConfigMap it read,
\* wrote nothing and got (true, nil) from the resolver; a call that writes or
\* creates the ConfigMap or defers the write sets no Ready and does not call
\* the resolver.
C17_ReadyOnlyWhenConverged ==
    [][\A e \in Entities :
          /\ (EndsCallOf(e) /\ last'.state = "Ready") =>
                /\ RuleIn(pass[e].cm, OwnerOf(e)) = CandidateOf(e)
                /\ ~last'.changed
                /\ last'.wrote = "none"
                /\ ~last'.deferred
                /\ configMap' = configMap
                /\ last'.resolver = "active"
          /\ (EndsCallOf(e) /\ (last'.wrote # "none" \/ last'.deferred)) =>
                /\ last'.state # "Ready"
                /\ last'.resolver = "none"
          /\ (entities'[e].state = "Ready" /\ entities[e].state # "Ready") =>
                (EndsCallOf(e) /\ last'.state = "Ready")]_vars

\* a call has found the rule in place and the record active and has set Ready
C17_Witness ==
    /\ last.step = "reconcile"
    /\ last.state = "Ready"
    /\ last.resolver = "active"
    /\ last.wrote = "none"
    /\ entities[last.e].state = "Ready"
    /\ RuleIn(configMap, OwnerOf(last.e)) # NoRule

\* C18: when the ConfigMap needs no change, a call sets Ready and asks for a
\* requeue after 10 minutes if the resolver answers (true, nil), sets
\* Processing and asks for a requeue after 10 seconds if it answers
\* (false, nil), and sets Error if it answers with an error; the interval
\* reaches the caller unless the deferred update of the status fails. A check
\* that fails later takes a Ready object back to Processing.
C18_CheckOutcome ==
    [][\A e \in Entities :
          (EndsCallOf(e) /\ last'.resolver # "none") =>
             /\ ~last'.changed /\ last'.wrote = "none"
             /\ last'.resolver = "active" =>
                   /\ last'.state = "Ready"
                   /\ last'.result = "10m"
             /\ last'.resolver = "inactive" =>
                   /\ last'.state = "Processing"
                   /\ last'.result = "10s"
             /\ last'.resolver = "error" =>
                   /\ last'.state = "Error"
                   /\ last'.result = "none"
             /\ last'.persisted =>
                   /\ entities'[e].state = last'.state
                   /\ last'.requeue = last'.result]_vars

\* the call of a Ready object has got (false, nil) from the resolver and has
\* set the object back to Processing
C18_Witness ==
    /\ last.step = "reconcile"
    /\ last.previous = "Ready"
    /\ last.resolver = "inactive"
    /\ last.persisted
    /\ entities[last.e].state = "Processing"

\* the call of e has read a ConfigMap in which a rule of another owner
\* conflicts with the candidate rule of e
ReadsConflict(e) ==
    /\ pass[e].pc = "loaded"
    /\ ~pass[e].ent.deleting
    /\ ClashingOwners(RulesIn(pass[e].cm), CandidateOf(e)) # {}

\* C19: a call whose candidate rule conflicts with the rule of another owner
\* in the ConfigMap ends with state Error and writes nothing, the rule of
\* the other owner stays as it is, and the object does not become Ready.
C19_ConflictEndsInError ==
    [][\A e \in Entities :
          (ReadsConflict(e) /\ EndsCallOf(e)) =>
             /\ last'.state = "Error"
             /\ last'.wrote = "none"
             /\ configMap' = configMap
             /\ entities'[e].state # "Ready"]_vars

\* the step ends a Reconcile call of the object e with an error, before or
\* after the call has read the ConfigMap
EndsInError(e) ==
    /\ last'.step = "reconcile"
    /\ last'.e = e
    /\ last'.err # "none"
    /\ \/ EndsCallOf(e)
       \/ pass' = pass /\ last' # last

\* C20 as the specification states it: every call that ends with an error
\* persists the state Error with the error text and records a warning event,
\* and the worker is free for the next call.
C20_ErrorIsPersisted ==
    [][\A e \in Entities :
          EndsInError(e) =>
             /\ last'.state = "Error"
             /\ last'.event = "ReconciliationFailed"
             /\ last'.persisted
             /\ entities'[e].state = "Error"
             /\ entities'[e].msg = last'.err
             /\ pass'[e].pc = "idle"]_vars

\* C20, amended: every call that has read its object and ends with an error
\* of the reconciliation (rule validation, decoding of the ConfigMap,
\* conflict, store error, resolver error) sets the state Error with the error
\* text and records a warning event; the state is persisted unless the API
\* server refuses the update of the status because the object has changed
\* during the call. A call that cannot read its object, or whose only error
\* is the refused update of the status, returns the error and leaves the
\* state of the object as it is. The worker is free for the next call in every case.
C20_ErrorIsReported ==
    [][\A e \in Entities :
          EndsInError(e) =>
             /\ pass'[e].pc = "idle"
             /\ (last'.from # NoName /\ last'.err # StatusRefused) =>
                   /\ last'.state = "Error"
                   /\ last'.event = "ReconciliationFailed"
                   /\ last'.persisted =>
                         /\ entities'[e].state = "Error"
                         /\ entities'[e].msg = last'.err
                   /\ ~last'.persisted =>
                         /\ pass[e].entStale
                         /\ entities'[e].state = entities[e].state
                         /\ entities'[e].msg = entities[e].msg
             /\ (last'.from = NoName \/ last'.err = StatusRefused) =>
                   /\ ~last'.persisted
                   /\ last'.event # "ReconciliationFailed"
                   /\ entities'[e].state = entities[e].state
                   /\ entities'[e].msg = entities[e].msg]_vars

\* the resolver has failed and the object carries Error with the error text
C20_Witness ==
    /\ last.step = "reconcile"
    /\ last.err = "error check DNS record"
    /\ last.persisted
    /\ last.event = "ReconciliationFailed"
    /\ entities[last.e].state = "Error"
    /\ entities[last.e].msg = last.err

-----------------------------------------------------------------------------
(* C21..C30: events on the owner, the first call, blocked deletion, the     *)
(* resolver, liveness                                                       *)

\* the step ends a Reconcile call of the object e that has read the object
EndsReadCallOf(e) ==
    /\ last'.step = "reconcile"
    /\ last'.e = e
    /\ last'.from # NoName
    /\ \/ EndsCallOf(e)
       \/ pass' = pass /\ last' # last

\* C21: for an object that declares an owner, a call records an event on the
\* owner exactly when it takes the state to Ready from another state
\* (success) or to Error from another state (failure); a call that leaves the
\* state as it was records none.
C21_OwnerEvents ==
    [][\A e \in Entities :
          (HasControllerLabels(e) /\ EndsReadCallOf(e)) =>
             /\ (last'.ownerEvent = "ReconciliationSucceeded") <=>
                   (last'.state = "Ready" /\ last'.previous # "Ready")
             /\ (last'.ownerEvent = "ReconciliationFailed") <=>
                   (last'.state = "Error" /\ last'.previous # "Error")
             /\ last'.state = last'.previous => last'.ownerEvent = "none"]_vars

ReadsBlocked(e) ==
    IF pass[e].pc = "loaded"
    THEN pass[e].ent.deleting /\ pass[e].ent.foreign
    ELSE entities[e].phase = "present" /\ entities[e].deleting /\ entities[e].foreign

\* the step leaves the ConfigMap, the rule of e in it and the finalizer of e
\* as they are
NoCleanup(e) ==
    /\ last'.wrote = "none"
    /\ ~last'.cleared
    /\ configMap' = configMap
    /\ RuleIn(configMap', OwnerOf(e)) = RuleIn(configMap, OwnerOf(e))
    /\ entities'[e].own = entities[e].own

\* C23 as the specification states it: every call of an object that is marked
\* for deletion and carries a foreign finalizer sets DeletionBlocked, asks
\* for a requeue after 10 seconds and cleans nothing up.
C23_DeletionBlocked ==
    [][\A e \in Entities :
          (EndsReadCallOf(e) /\ ReadsBlocked(e)) =>
             /\ last'.state = "DeletionBlocked"
             /\ last'.result = "10s"
             /\ NoCleanup(e)]_vars

\* C23, amended: every call of an object that is marked for deletion and
\* carries a foreign finalizer cleans nothing up; the call sets
\* DeletionBlocked and asks for a requeue after 10 seconds once the object has
\* a state and the ConfigMap has been read without a store error; before
\* that, a call sets New on an object without state and ends with Error when
\* the read of the ConfigMap fails.
C23_BlockedNoCleanup ==
    [][\A e \in Entities :
          (EndsReadCallOf(e) /\ ReadsBlocked(e)) =>
             /\ NoCleanup(e)
             /\ EndsCallOf(e) =>
                   /\ last'.state = "DeletionBlocked"
                   /\ last'.result = "10s"
                   /\ last'.err \in {"none", StatusRefused}
                   /\ last'.persisted => entities'[e].state = "DeletionBlocked"
             /\ ~EndsCallOf(e) =>
                   \/ last'.previous = "" /\ last'.state = "New"
                   \/ last'.err = "unexpected get error" /\ last'.state = "Error"]_vars

\* an object whose rule is in the ConfigMap is marked for deletion, carries a
\* foreign finalizer and has got the state DeletionBlocked
C23_Witness ==
    /\ last.step = "reconcile"
    /\ last.state = "DeletionBlocked"
    /\ last.persisted
    /\ entities[last.e].deleting /\ entities[last.e].foreign /\ entities[last.e].own
    /\ entities[last.e].state = "DeletionBlocked"
    /\ RuleIn(configMap, OwnerOf(last.e)) # NoRule

-----------------------------------------------------------------------------
(* Properties of the resolver, checked under SpecResolver *)

\* the call returned after it started its goroutines
Collected == check.pc = "returned" /\ check.started

\* the technical errors endpoint i reported
ErrorsOf(i) == {tasks[i].report.Y[k] : k \in DOMAIN tasks[i].report.Y}

\* the errors CheckRecord returned
ReturnedErrors == {check.merr[k] : k \in DOMAIN check.merr}

\* C24: CheckRecord returns active = true exactly if every endpoint reported
\* success without a technical error; the error it returns combines the
\* technical errors of all endpoints and is nil if there was none, whatever
\* the order in which the goroutines finished.
C24_Aggregation ==
    Collected =>
       /\ check.active <=>
              \A i \in DOMAIN tasks : tasks[i].report.X /\ tasks[i].report.Y = <<>>
       /\ ReturnedErrors = UNION {ErrorsOf(i) : i \in DOMAIN tasks}
       /\ (check.merr = <<>>) <=> \A i \in DOMAIN tasks : tasks[i].report.Y = <<>>

\* one endpoint succeeded, the tunnel to the other could not be started
C24_Witness ==
    /\ Collected
    /\ Len(tasks) = 2
    /\ tasks[1].report = Pair(TRUE, <<>>)
    /\ tasks[2].tunnel = "failed"
    /\ ~check.active
    /\ check.merr = <<<<2, "portforward failed">>>>

\* C25: CheckRecord starts one goroutine per endpoint and returns only after
\* every one of them has reported; a mismatch or a technical error of one
\* endpoint keeps no other endpoint from being queried, and the returned
\* error contains the technical errors of every endpoint.
C25_NoShortCircuit ==
    /\ check.started => Len(tasks) = Len(check.endpoints)
    /\ Collected =>
          \A i \in DOMAIN tasks :
             /\ tasks[i].sent
             /\ results[i] = <<>>
             /\ tasks[i].tunnel # "failed" => tasks[i].hostAnswer.kind # "none"
             /\ ErrorsOf(i) \subseteq ReturnedErrors

\* the first endpoint failed technically, the second was queried and its
\* own error is returned, too
C25_Witness ==
    /\ Collected
    /\ Len(tasks) = 2
    /\ tasks[1].hostAnswer.kind = "error"
    /\ tasks[2].hostAnswer.kind = "ok"
    /\ tasks[2].expectedAnswer.kind = "error"
    /\ check.merr = <<<<1, "lookup failed">>, <<2, "lookup failed">>>>

\* the number of times address a occurs in addrs
Occurrences(addrs, a) == Cardinality({k \in DOMAIN addrs : addrs[k] = a})

\* the two answers hold the same addresses, in whatever order
SameAddresses(addrs1, addrs2) ==
    \A a \in {addrs1[k] : k \in DOMAIN addrs1} \cup {addrs2[k] : k \in DOMAIN addrs2} :
        Occurrences(addrs1, a) = Occurrences(addrs2, a)

\* goroutine i made its lookups and sent its verdict
Judged(i) == tasks[i].sent /\ tasks[i].tunnel # "failed"

\* C26: with an empty expectedResult an endpoint succeeds exactly if the
\* lookup of host had no technical error and gave no address (a name not
\* found gives no address and no error); otherwise it succeeds exactly if no
\* lookup had a technical error, host has at least one address and the
\* sorted addresses of host and of expectedResult are equal.
C26_EndpointVerdict ==
    \A i \in DOMAIN tasks :
       Judged(i) =>
          LET t == tasks[i] IN
          IF check.expectedResult = ""
          THEN /\ t.expectedAnswer.kind = "none"
               /\ t.report.X <=> /\ t.hostAnswer.kind # "error"
                                 /\ Len(t.hostAnswer.addrs) = 0
          ELSE t.report.X <=> /\ t.hostAnswer.kind # "error"
                              /\ t.expectedAnswer.kind # "error"
                              /\ Len(t.hostAnswer.addrs) >= 1
                              /\ SameAddresses(t.hostAnswer.addrs, t.expectedAnswer.addrs)

\* host and expectedResult both resolve to nothing: a failure; and a
\* success on answers that differ in their order only
C26_Witness ==
    /\ Len(tasks) = 2
    /\ Judged(1) /\ Judged(2)
    /\ check.expectedResult # ""
    /\ tasks[1].hostAnswer.kind = "notfound"
    /\ tasks[1].expectedAnswer.kind = "notfound"
    /\ tasks[1].report = Pair(FALSE, <<>>)
    /\ tasks[2].hostAnswer.addrs = <<2, 1>>
    /\ tasks[2].expectedAnswer.addrs = <<1, 2>>
    /\ tasks[2].report = Pair(TRUE, <<>>)

\* the discovery of the endpoints cannot succeed on this cluster
DiscoveryFails(cluster) ==
    \/ cluster.getService = "error"
    \/ \A k \in DOMAIN cluster.ports :
          ~(cluster.ports[k].Protocol = "TCP" /\ cluster.ports[k].Port = 53)
    \/ cluster.getEndpoints = "error"

\* CheckRecord was called on a resolver without configured endpoints
Discovers == check.pc # "idle" /\ Len(check.configured) = 0

\* C27: without configured endpoints, a discovery that yields no endpoint
\* and no error makes CheckRecord return (true, nil); a discovery error
\* makes it return (false, err) and no goroutine is started.
C27_Discovery ==
    Discovers =>
       /\ DiscoveryFails(check.cluster) =>
             /\ check.pc = "returned"
             /\ ~check.active
             /\ check.merr # <<>>
             /\ ~check.started
             /\ tasks = <<>>
       /\ (~DiscoveryFails(check.cluster) /\ Len(check.endpoints) = 0
             /\ check.pc = "returned") =>
             /\ check.active
             /\ check.merr = <<>>

\* the discovery finds subsets, but none with the port and a pod
C27_Witness ==
    /\ Discovers
    /\ check.cluster.subsets # <<>>
    /\ Collected
    /\ Len(check.endpoints) = 0
    /\ check.active
    /\ check.merr = <<>>

\* goroutine i has to go through a tunnel
NeedsTunnel(i) == check.endpoints[i].InCluster /\ ~check.inCluster

\* C28: a goroutine starts a tunnel exactly if its endpoint is in the
\* cluster and the caller is not; a tunnel that was started is stopped
\* when the goroutine ends, whatever the lookups gave, so no tunnel is open
\* once all goroutines of the call have ended.
C28_TunnelLifecycle ==
    /\ \A i \in DOMAIN tasks :
          /\ tasks[i].pc # "start" => (tasks[i].tunnel # "none" <=> NeedsTunnel(i))
          /\ tasks[i].tunnel \in {"open", "released"} => NeedsTunnel(i)
          /\ tasks[i].pc = "ended" => tasks[i].tunnel # "open"
          /\ (tasks[i].pc = "ended" /\ NeedsTunnel(i)) => tasks[i].tunnel \in {"failed", "released"}
    /\ AllEnded => \A i \in DOMAIN tasks : tasks[i].tunnel # "open"

\* both goroutines ended after a tunnel: one with a technical error of a
\* lookup, one with a mismatch
C28_Witness ==
    /\ Len(tasks) = 2
    /\ AllEnded
    /\ tasks[1].tunnel = "released"
    /\ tasks[1].report.Y # <<>>
    /\ tasks[2].tunnel = "released"
    /\ tasks[2].report = Pair(FALSE, <<>>)

\* goroutine i waits for the answer to a lookup
InFlight(i) == tasks[i].pc \in {"lookupHost", "lookupExpected"}

\* the lookup goroutine i waited for ended without an answer of the server
Aborted(i) ==
    IF tasks[i].pc = "lookupHost" THEN tasks'[i].hostAnswer.kind = "error"
    ELSE tasks'[i].expectedAnswer.kind = "error"

\* C29: once the context passed to CheckRecord is cancelled, a lookup in
\* flight is aborted: it ends with an error and its goroutine does not wait
\* for the server's answer.
C29_CancelAborts ==
    [][\A i \in DOMAIN tasks :
          (check.cancelled /\ InFlight(i) /\ tasks'[i] # tasks[i]) => Aborted(i)]_vars

-----------------------------------------------------------------------------
(* Liveness of creation and update, checked under SpecLive *)

\* the status of the object e is Ready for the .spec it has now
ReadyForGeneration(e) ==
    /\ entities[e].state = "Ready"
    /\ entities[e].observedGeneration = entities[e].generation

\* C30: with fair scheduling of the Reconcile calls, store operations that
\* succeed in the end and a resolver that reports the rule as active in the
\* end, an object that exists (not marked for deletion, no conflict with
\* another owner's rule) gets state Ready with observedGeneration equal to
\* its generation; after a change of from or to it gets there again for the
\* new generation.
C30_EventuallyReady ==
    \A e \in Entities : \A g \in 1..MaxGeneration :
        (entities[e].phase = "present" /\ entities[e].generation = g)
           ~> (ReadyForGeneration(e) /\ entities[e].generation >= g)

\* the object was changed and is Ready for its second generation
C30_Witness ==
    /\ entities[1].generation = 2
    /\ ReadyForGeneration(1)
    /\ last.step = "reconcile"
    /\ last.e = 1
    /\ last.previous = "Processing"

-----------------------------------------------------------------------------
(* C31..C39 *)

\* C31: with fair scheduling of the Reconcile calls, foreign finalizers that
\* are removed in the end, a decodable ConfigMap and store operations that
\* succeed in the end, an object marked for deletion disappears, and its rule
\* is out of the ConfigMap by then.
C31_EventuallyGone ==
    \A e \in DeletionLiveEntities :
        entities[e].deleting
           ~> (entities[e].phase = "gone" /\ RuleIn(configMap, OwnerOf(e)) = NoRule)

\* the rule of the object was written and removed, the call that found it
\* removed has cleared the finalizer
C31_Witness ==
    /\ entities[1].phase = "gone"
    /\ configMap.present
    /\ configMap.lastUpdatedAt >= 0
    /\ RuleIn(configMap, OwnerOf(1)) = NoRule
    /\ last.step = "reconcile"
    /\ last.e = 1
    /\ last.cleared

\* C33: a call AddRule(r) with a valid r succeeds whenever every rule of the
\* set that matches r.From, or whose From is matched by r, belongs to r.Owner
\* (an owner changing a.foo.io to *.foo.io or back is not in conflict with
\* itself); the owner's entry is then r, and it is the only entry under
\* which the owner is found.
OnlyOwnMatches(r) ==
    \A o \in DOMAIN rulesByOwner :
        (Matches(rulesByOwner[o], r.From) \/ Matches(r, rulesByOwner[o].From))
            => rulesByOwner[o].Owner = r.Owner

C33_OwnRuleNoConflict ==
    [][(op'.name = "AddRule" /\ OnlyOwnMatches(op'.rule)
                             /\ AddRuleCheck(op'.rule) = "none")
          => /\ res'.err = "none"
             /\ rulesByOwner'[op'.rule.Owner] = op'.rule
             /\ rulesByFrom'[op'.rule.From] = op'.rule.Owner
             /\ \A f \in DOMAIN rulesByFrom' :
                    rulesByFrom'[f] = op'.rule.Owner => f = op'.rule.From]_vars

\* an owner holds the wildcard rule it was given last next to another owner's
\* rule for a name the wildcard does not cover
C33_Witness ==
    /\ op.name = "AddRule"
    /\ res.err = "none"
    /\ op.rule.From = WildFoo
    /\ rulesByOwner[op.rule.Owner] = op.rule
    /\ DOMAIN rulesByFrom = {WildFoo, NameB}
    /\ Cardinality(DOMAIN rulesByOwner) = 2

\* C39: a successful AddRule(r) or RemoveRule(owner) changes at most the
\* entry of that owner: every other owner is found with the same rule before
\* and after the call, under the same From key.
OthersOf(rs, owner) ==
    [o \in (DOMAIN rs.rulesByOwner) \ {owner} |-> rs.rulesByOwner[o]]

FromKeysOfOthers(rs, owner) ==
    {<<f, rs.rulesByFrom[f]>> : f \in {g \in DOMAIN rs.rulesByFrom : rs.rulesByFrom[g] # owner}}

C39_OtherOwnersUntouched ==
    [][(op'.name \in {"AddRule", "RemoveRule"} /\ res'.err = "none")
          => /\ OthersOf([rulesByFrom |-> rulesByFrom', rulesByOwner |-> rulesByOwner'],
                          op'.rule.Owner)
                   = OthersOf(RS, op'.rule.Owner)
             /\ FromKeysOfOthers([rulesByFrom |-> rulesByFrom', rulesByOwner |-> rulesByOwner'],
                                  op'.rule.Owner)
                   = FromKeysOfOthers(RS, op'.rule.Owner)]_vars

\* one owner's rule was removed and the rules of two other owners are in the set
C39_Witness ==
    /\ op.name = "RemoveRule"
    /\ res.err = "none"
    /\ op.rule.Owner \notin DOMAIN rulesByOwner
    /\ Cardinality(DOMAIN rulesByOwner) = 2
    /\ Cardinality(DOMAIN rulesByFrom) = 2

\* C34: a call for an object that is not marked for deletion creates or
\* updates the ConfigMap only for an object that carries the controller's
\* finalizer (it had it, or the call has added it before); a call that
\* fails to add the finalizer ends with that error and writes nothing; and
\* in every state, the owner of a rule in the ConfigMap is an object that
\* is in the store with the finalizer.
FinalizerError(err) ==
    /\ Len(err) >= Len("error setting finalizer")
    /\ SubSeq(err, 1, Len("error setting finalizer")) = "error setting finalizer"

C34_FinalizerBeforeWrite ==
    /\ [][\A e \in Entities :
            (last'.step = "reconcile" /\ last'.e = e /\ pass[e].pc = "loaded"
                /\ pass'[e].pc = "idle" /\ ~pass[e].ent.deleting)
               => /\ last'.wrote # "none"
                     => /\ pass[e].ent.own \/ last'.added
                        /\ entities'[e].phase = "present"
                        /\ entities'[e].own
                  /\ (~pass[e].ent.own /\ ~last'.added)
                     => /\ FinalizerError(last'.err)
                        /\ last'.wrote = "none"
                        /\ configMap' = configMap]_vars
    /\ [](\A e \in Entities :
            RuleIn(configMap, OwnerOf(e)) # NoRule
               => entities[e].phase = "present" /\ entities[e].own)

\* a call has added the finalizer and written the rule of its object
C34_Witness ==
    /\ last.step = "reconcile"
    /\ last.added
    /\ last.wrote # "none"
    /\ entities[last.e].own
    /\ RuleIn(configMap, OwnerOf(last.e)) # NoRule

\* a call could not add the finalizer, because the object was deleted
\* after the call had read it
C34_WitnessRefused ==
    /\ last.step = "reconcile"
    /\ FinalizerError(last.err)
    /\ last.wrote = "none"
    /\ ~last.added

\* the entries of the text data that name the owner o, and those for the source from
OwnerEntries(data, o) ==
    {i \in 1..Len(data) : IsOwnerLine(data[i]) /\ CapturedOwner(data[i]) = o}

FromEntries(data, from) ==
    {i \in 1..Len(data) : IsFromLine(data[i]) /\ CapturedName(data[i]) = from}

C36_AbsentConfigMap ==
    [][\A e \in Entities :
          (last'.step = "reconcile" /\ last'.e = e /\ pass[e].pc = "loaded"
              /\ pass'[e].pc = "idle" /\ ~pass[e].cm.present)
             => /\ (~pass[e].ent.deleting /\ last'.err = "none")
                   => /\ last'.wrote = "create"
                      /\ ~configMap.present
                      /\ configMap'.present
                      /\ configMap'.data
                            = String([rulesByFrom |-> (pass[e].ent.from :> OwnerOf(e)),
                                      rulesByOwner |->
                                         (OwnerOf(e) :> [Owner |-> OwnerOf(e),
                                                         From |-> pass[e].ent.from,
                                                         To |-> pass[e].ent.to])],
                                     <<OwnerOf(e)>>, <<OwnerOf(e)>>)
                      /\ last'.state = "Processing"
                      /\ entities'[e].state = "Processing"
                      /\ last'.result = "1s"
                      /\ last'.requeue = "1s"
                      /\ last'.resolver = "none"
                /\ (pass[e].ent.deleting /\ ~pass[e].ent.foreign)
                   => /\ last'.wrote = "none"
                      /\ configMap' = configMap
                      /\ last'.err = "none"
                            => /\ last'.cleared
                               /\ entities'[e].phase = "gone"]_vars

\* the ConfigMap was deleted, and a call for an object marked for deletion
\* has cleared the finalizer without creating one
C36_Witness ==
    /\ last.step = "reconcile"
    /\ last.cleared
    /\ last.wrote = "none"
    /\ ~configMap.present
    /\ entities[last.e].phase = "gone"

\* a call has created the ConfigMap with the rule of its object
C36_WitnessCreated ==
    /\ last.step = "reconcile"
    /\ last.wrote = "create"
    /\ last.state = "Processing"
    /\ last.resolver = "none"
    /\ configMap.present
    /\ DOMAIN RulesIn(configMap) = {OwnerOf(last.e)}

ClearError(err) ==
    /\ Len(err) >= Len("error clearing finalizer")
    /\ SubSeq(err, 1, Len("error clearing finalizer")) = "error clearing finalizer"

\* C37: the call that clears the finalizer makes no status update, and the
\* object is gone with it; every other call that has found its object makes
\* exactly one status update; a call whose clearing of the finalizer is
\* refused makes its status update with the state Error.
C37_StatusUpdates ==
    [][\A e \in Entities :
          /\ (last'.step = "reconcile" /\ last'.e = e /\ pass[e].pc = "loaded"
                 /\ pass'[e].pc = "idle")
                => /\ last'.cleared
                      => /\ last'.statusUpdates = 0
                         /\ ~last'.persisted
                         /\ entities'[e] = NoEntity("gone")
                   /\ ~last'.cleared => last'.statusUpdates = 1
                   /\ ClearError(last'.err)
                      => /\ ~last'.cleared
                         /\ last'.statusUpdates = 1
                         /\ last'.state = "Error"
                         /\ last'.event = "ReconciliationFailed"
          /\ (last'.step = "reconcile" /\ last'.e = e /\ pass[e].pc = "idle"
                 /\ last' # last /\ entities[e].phase = "present"
                 /\ (last'.err # "unexpected get error" \/ last'.state = "Error"))
                => last'.statusUpdates = 1]_vars

\* the call that cleared the finalizer made no status update
C37_Witness ==
    /\ last.step = "reconcile"
    /\ last.cleared
    /\ last.statusUpdates = 0
    /\ last.err = "none"
    /\ entities[last.e].phase = "gone"

\* the clearing of the finalizer was refused and the call made its status
\* update with the state Error
C37_WitnessRefused ==
    /\ last.step = "reconcile"
    /\ ClearError(last.err)
    /\ last.statusUpdates = 1
    /\ last.state = "Error"
    /\ entities[last.e].own

\* the number of results the goroutine i has sent: those in the buffer of
\* its channel and the one that CheckRecord has received
Sends(i) == Len(results[i]) + (IF check.next > i THEN 1 ELSE 0)

\* C38: every goroutine of a CheckRecord call sends exactly one result,
\* whatever its path (it has sent none before its send, and one from then
\* on), finds room in its channel when it sends, and, if every
\* portforward.Start() and every lookup returns, CheckRecord returns and
\* every goroutine ends.
C38_FanInTerminates ==
    /\ [](\A i \in DOMAIN tasks :
            /\ Sends(i) <= 1
            /\ tasks[i].sent <=> Sends(i) = 1
            /\ tasks[i].pc \in {"sent", "ended"} => tasks[i].sent
            /\ tasks[i].pc \in {"start", "lookupHost", "lookupExpected"}
                  => ~tasks[i].sent /\ CanSend(results[i]))
    /\ (check.pc = "collect" ~> check.pc = "returned")
    /\ (check.pc = "collect" ~> AllEnded)

\* a call over two endpoints has returned: the tunnel of the first did not
\* start, the lookup through the tunnel of the second failed
C38_Witness ==
    /\ check.pc = "returned"
    /\ Len(tasks) = 2
    /\ AllEnded
    /\ tasks[1].tunnel = "failed"
    /\ tasks[2].tunnel = "released"
    /\ tasks[2].merr # <<>>
    /\ \A i \in DOMAIN tasks : Sends(i) = 1 /\ results[i] = <<>>

\* C32 is checked under SpecDependents.

\* the dependents that are not requested for deletion
LiveDependents(items) == SelectSeq(items, LAMBDA d : ~d.deleting)

\* the indices of the live dependents for the host
LiveFor(items, host, target) ==
    {i \in DOMAIN LiveDependents(items) :
        LiveDependents(items)[i].From = host /\ LiveDependents(items)[i].To = target}

HostSet(hs) == {hs[k] : k \in DOMAIN hs}

\* the step is a manageDependents call that returns nil
ManagedOk == managed'.seq # managed.seq /\ managed'.err = "none"

\* the call before this one returned nil, and neither the owner nor its
\* dependents have changed since
Repeated == managed.fresh /\ managed.err = "none"

\* C32: after a manageDependents call that returns nil, for an owner that is
\* not being deleted and has the target to, the dependents not requested
\* for deletion are one rule (h, to) for each host h and nothing else; with
\* no target, or for an owner being deleted, every dependent is requested
\* for deletion; and a call repeated on an unchanged owner creates and
\* deletes nothing.
C32_DependentsMatchHosts ==
    [][ManagedOk =>
          /\ (~obj.deleting /\ obj.to # NoName)
                => /\ \A h \in HostSet(obj.hosts) :
                          Cardinality(LiveFor(dependents', h, obj.to)) = 1
                   /\ Len(LiveDependents(dependents')) = Len(obj.hosts)
          /\ (obj.deleting \/ obj.to = NoName)
                => LiveDependents(dependents') = <<>>
          /\ Repeated => managed'.created = {} /\ managed'.deleted = {}]_vars

\* no rule that the call found for one of its hosts was being deleted
NoneKeptDeleting ==
    \A i \in DOMAIN dependents' :
        dependents'[i].UID \in managed'.kept => ~dependents'[i].deleting

\* the same for the calls that find no rule being deleted for their hosts
C32_ExceptDeleting ==
    [][ManagedOk =>
          /\ (~obj.deleting /\ obj.to # NoName /\ NoneKeptDeleting)
                => /\ \A h \in HostSet(obj.hosts) :
                          Cardinality(LiveFor(dependents', h, obj.to)) = 1
                   /\ Len(LiveDependents(dependents')) = Len(obj.hosts)
          /\ (obj.deleting \/ obj.to = NoName)
                => LiveDependents(dependents') = <<>>
          /\ Repeated => managed'.created = {} /\ managed'.deleted = {}]_vars

\* a call has created the rule for its host and requested the deletion of
\* a stale one
C32_Witness ==
    /\ managed.fresh
    /\ managed.err = "none"
    /\ managed.created # {}
    /\ managed.deleted # {}
    /\ Len(LiveDependents(dependents)) = 1
    /\ Len(dependents) = 2

====
